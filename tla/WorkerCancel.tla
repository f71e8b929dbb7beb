---------------------------- MODULE WorkerCancel ----------------------------
(***************************************************************************)
(* The worker (module Worker) with a memory of the cancels it could not    *)
(* but hear of.  A run looks for a cancel in on_progress only: in the      *)
(* answer of the POST, and in the flag of its heartbeat (worker.py:202 and *)
(* 208).  A cancel that comes after the last on_progress began, or while   *)
(* the artifact is uploaded, is overwritten by the verdict.                *)
(***************************************************************************)
EXTENDS WorkerProps

VARIABLES
    shown,     \* the job, if it was cancelled when the present on_progress began
    raised,    \* the job, if its flag was up then
    heard      \* the job, if its cancel was seen: it was there before an on_progress
               \* that was answered, or its flag was up before one

cancelVars == <<shown, raised, heard>>

OnProgressBegins == pc = "train" /\ pc' = "reporting"
OnProgressReturns == pc = "reporting" /\ pc' = "train"

Remember ==
    /\ \/ OnProgressBegins /\ shown' = userCancelled \cap {job}
                           /\ raised' = {j \in {job} : cancelFlag[j]}
       \/ OnProgressReturns /\ shown' = {} /\ raised' = {}
       \/ ~OnProgressBegins /\ ~OnProgressReturns /\ UNCHANGED <<shown, raised>>
    /\ heard' = {job'} \cap (heard \cup
          {j \in {job} : /\ OnProgressReturns
                         /\ j \in raised \/ (j \in shown /\ call[Main].phase = "done")})

CancelInit == Init /\ shown = {} /\ raised = {} /\ heard = {}
CancelSpec == CancelInit /\ [][Next /\ Remember]_<<vars, cancelVars>>

-----------------------------------------------------------------------------
\* The run of a job with an in-process trainer posts no verdict once it heard of the cancel:
\* /complete or /failed overwrites a cancel only if that came after the last on_progress
\* began, or if no callback got through since (worker.py:190-217 and 230-248).
HeardCancelIsHeeded ==
    \A j \in heard \ SubprocessJobs, v \in Verdicts : <<j, v>> \notin posted

-----------------------------------------------------------------------------
(* What a comment of the code says and the code does not do for child processes. *)

\* worker.py:215-216 "The server already set status='cancelled' ... Posting /failed here
\* would clobber that state.": the cancel of a job stands if its run heard of it.  A child
\* that survives SIGKILL for ten seconds turns the cancel into TimeoutExpired
\* (gr00t_n1.py:618, annotate.py:242), and that into /failed; the replay of gr00t_n1 drops
\* what on_progress returns (gr00t_n1.py:669), and the job is completed.
CancelledStaysCancelled ==
    \A j \in heard : status[j] \notin {"failed", "completed"}

-----------------------------------------------------------------------------
(* The inductive invariant behind HeardCancelIsHeeded, next to IInv. *)

\* A cancel that was there when on_progress began is in every answer it gets.
AnswersShow == pc = "reporting" /\ job \in shown /\ Answered(Main) => call[Main].reply = "stop"

\* Who heard of the cancel was told.
HeardIsTold == \A j \in heard : j = job /\ told

CancelKnown ==
    /\ shown \subseteq userCancelled
    /\ raised \subseteq {j \in Jobs : cancelFlag[j]}
    /\ heard \subseteq Jobs
    /\ AnswersShow /\ HeardIsTold /\ HeardCancelIsHeeded
=============================================================================
