-------------------------- MODULE ParallelDownload --------------------------
(***************************************************************************)
(* StorageClient.download_dataset (storage.py): list the objects of a      *)
(* dataset, then fetch them with a pool of threads.                        *)
(*                                                                         *)
(* The pool is concurrent.futures, outside the repository.  pool.map       *)
(* submits every key at once and yields the results in the order of the    *)
(* keys; when one raises, the iterator cancels the futures that no thread  *)
(* has taken; leaving the with block waits for those that one has.         *)
(***************************************************************************)
EXTENDS Integers, FiniteSets

CONSTANTS
    MaxObjects,    \* bound: objects under the prefix
    PoolSize       \* max_workers, storage.py:105 (16 in the code)

ASSUME PoolAssumption == PoolSize \in Nat \ {0} /\ MaxObjects \in Nat

VARIABLES
    objects,    \* number of objects listed, the folder placeholder left out
    task,       \* key -> its future
    files,      \* the keys whose local file is complete
    next,       \* the key whose result list() waits for
    pc,         \* "listing", "results", "leaving", "returned", "raised"
    error       \* the key whose failure is raised, or 0

vars == <<objects, task, files, next, pc, error>>

Keys == 1 .. objects
Futures == {"queued", "running", "done", "failed", "cancelled"}
In(state) == {k \in Keys : task[k] = state}

Init == /\ objects \in 0 .. MaxObjects
        /\ task = [k \in 1 .. objects |-> "queued"]
        /\ files = {} /\ next = 1 /\ error = 0
        /\ pc = "listing"

\* The pages of list_objects_v2 are read; an empty dataset is an error.
Listed == /\ pc = "listing"
          /\ pc' = IF objects = 0 THEN "raised" ELSE "results"
          /\ UNCHANGED <<objects, task, files, next, error>>

ListingFails == /\ pc = "listing"
                /\ pc' = "raised"
                /\ UNCHANGED <<objects, task, files, next, error>>

\* A thread of the pool takes the oldest future that is neither taken nor cancelled.
StartTask(k) == /\ pc \in {"results", "leaving"}
                /\ task[k] = "queued"
                /\ \A i \in In("queued") : k <= i
                /\ Cardinality(In("running")) < PoolSize
                /\ task' = [task EXCEPT ![k] = "running"]
                /\ UNCHANGED <<objects, files, next, pc, error>>

\* Mutant: a transfer that failed is swallowed by _download_one.
TaskFails_Swallowed(k) == /\ task[k] = "running"
                          /\ task' = [task EXCEPT ![k] = "done"]
                          /\ UNCHANGED <<objects, files, next, pc, error>>

\* _download_one
TaskFails(k) == /\ task[k] = "running"
                /\ task' = [task EXCEPT ![k] = "failed"]
                /\ UNCHANGED <<objects, files, next, pc, error>>

TaskDone(k) == /\ task[k] = "running"
               /\ task' = [task EXCEPT ![k] = "done"]
               /\ files' = files \cup {k}
               /\ UNCHANGED <<objects, next, pc, error>>

\* list(pool.map(...)) moves over the results.
NextResult == /\ pc = "results"
              /\ next \in Keys /\ task[next] = "done"
              /\ next' = next + 1
              /\ UNCHANGED <<objects, task, files, pc, error>>

ResultRaises == /\ pc = "results"
                /\ next \in Keys /\ task[next] = "failed"
                /\ error' = next
                /\ pc' = "leaving"
                /\ task' = [k \in Keys |-> IF task[k] = "queued" THEN "cancelled"
                                                                 ELSE task[k]]
                /\ UNCHANGED <<objects, files, next>>

\* Mutant: one result more than there are keys is waited for.
AllResults_OneMore == /\ pc = "results"
                      /\ next = objects + 2
                      /\ pc' = "leaving"
                      /\ UNCHANGED <<objects, task, files, next, error>>

AllResults == /\ pc = "results"
              /\ next = objects + 1
              /\ pc' = "leaving"
              /\ UNCHANGED <<objects, task, files, next, error>>

\* Mutant: the pool is left without waiting for its threads.
PoolExits_NoWait == /\ pc = "leaving"
                    /\ pc' = IF error = 0 THEN "returned" ELSE "raised"
                    /\ UNCHANGED <<objects, task, files, next, error>>

\* The end of the with block: shutdown(wait=True).
PoolExits == /\ pc = "leaving"
             /\ In("running") = {} /\ In("queued") = {}
             /\ pc' = IF error = 0 THEN "returned" ELSE "raised"
             /\ UNCHANGED <<objects, task, files, next, error>>

PoolStep == \E k \in Keys : StartTask(k) \/ TaskFails(k) \/ TaskDone(k)

MainStep == Listed \/ ListingFails \/ NextResult \/ ResultRaises \/ AllResults \/ PoolExits

Next == MainStep \/ PoolStep

\* The threads run, and a transfer ends: boto has its own timeouts and retries.
Spec == Init /\ [][Next]_vars /\ WF_vars(MainStep) /\ WF_vars(PoolStep)

-----------------------------------------------------------------------------
\* Every variable keeps its type.
TypeOK ==
    /\ objects \in 0 .. MaxObjects
    /\ task \in [Keys -> Futures]
    /\ files \subseteq Keys
    /\ next \in 1 .. objects + 1
    /\ pc \in {"listing", "results", "leaving", "returned", "raised"}
    /\ error \in 0 .. objects

\* The caller trains on the whole dataset or not at all: whichever thread failed, and
\* however late, download_dataset returns only with every file in place
\* (storage.py:105-110).
ReturnMeansComplete == pc = "returned" => objects > 0 /\ files = Keys

\* Once the call is over, by return or by exception, no thread of the pool still
\* writes below dest_dir: the caller may delete the scratch directory at once.
OverMeansQuiet == pc \in {"returned", "raised"} => In("running") = {}

\* "re-raises the first download failure" (storage.py:106) is the first in the order
\* of the listing: every earlier key has been downloaded by then.
EarlierKeysAreThere == error # 0 => \A k \in 1 .. error - 1 : k \in files

-----------------------------------------------------------------------------
(* The inductive invariant behind the safety properties. *)

\* A future is done when its file is there; the results taken so far are of such.
DoneMeansThere == In("done") \subseteq files
ResultsInOrder == \A k \in 1 .. next - 1 : task[k] = "done"

\* Futures are cancelled, and the caller goes on, only after an error or the last result.
PhaseOfPool ==
    /\ pc = "listing" => \A k \in Keys : task[k] = "queued"
    /\ pc \in {"results", "leaving", "returned"} => objects > 0
    /\ pc \in {"listing", "results"} => error = 0
    /\ pc \in {"leaving", "returned"} /\ error = 0 => next = objects + 1
    /\ pc = "returned" => error = 0
    /\ error # 0 => error = next

IInv == TypeOK /\ DoneMeansThere /\ ResultsInOrder /\ PhaseOfPool /\ OverMeansQuiet

-----------------------------------------------------------------------------
\* The call ends, whichever transfers fail.
DownloadEnds == <>(pc \in {"returned", "raised"})
=============================================================================
