---------------------------- MODULE WorkerProps ----------------------------
(* What is checked and proved of the worker (module Worker). *)
EXTENDS Worker

\* Every variable keeps its type, whatever the calls return; no call is tried more often
\* than _MAX_RETRIES (callbacks.py:184).
TypeOK ==
    /\ status \in [Jobs -> Statuses]
    /\ userCancelled \subseteq Jobs
    /\ call \in [Threads -> Calls]
    /\ late \subseteq [op : Verdicts, job : Jobs, attempt : 1 .. MaxRetries]
    /\ lateClaims \in 0 .. MaxLateClaims
    /\ unseen \subseteq Jobs
    /\ pc \in MainLocs
    /\ job \in Jobs \cup {NoJob}
    /\ stage \in {"live", "replay"}
    /\ told \in BOOLEAN
    /\ shutdown \in BOOLEAN
    /\ hb \in [Jobs -> HbLocs]
    /\ hbStop \in [Jobs -> BOOLEAN]
    /\ cancelFlag \in [Jobs -> BOOLEAN]
    /\ uploaded \subseteq Jobs
    /\ posted \subseteq Jobs \X Verdicts
    /\ fate \in [Jobs -> Fates]

\* A job gets at most one verdict, whichever of the four exits of _run_one_job
\* that post is taken (worker.py:160, 222, 235, 241) and however often the POST
\* is repeated: no job is both completed and failed by its worker.
OneVerdict ==
    \A j \in Jobs : ~(<<j, "complete">> \in posted /\ <<j, "failed">> \in posted)

\* The server shows a job as completed only if its artifact is in the bucket:
\* the upload comes first (worker.py:230-241), and no late or repeated /complete
\* of another run can overtake it.
CompletedHasArtifact ==
    \A j \in Jobs : status[j] = "completed" => j \in uploaded

\* A heartbeat that was in flight when its job ended never cancels the next job:
\* the thread is not joined (worker.py:213, 219, 227), only its own flag is safe.
\* A flag is up only for a job that a user cancelled.
CancelFlagHasCause ==
    \A j \in Jobs : cancelFlag[j] => j \in userCancelled

\* A run ends silently, without any verdict, only if a user cancelled that very job
\* or the worker was told to shut down (worker.py:208, 212-217).
SilentEndHasCause ==
    \A j \in Jobs : fate[j] = "cancelled" =>
        /\ j \in userCancelled \/ shutdown
        /\ ~ \E v \in Verdicts : <<j, v>> \in posted

\* Every job that the server believes to be running is being run, is about to be
\* (its claim is being answered, its verdict is on the way), or was left behind in
\* one of four ways: the answer of its claim was lost, the worker was shut down,
\* its scratch directory failed, or its verdict was given up.  A fifth way to
\* leave a job running on the server for ever is an error of worker.py.
InHand(j) == j = job \/ (call[Main].op = "claim" /\ call[Main].reply = j)
VerdictUnderWay(j) == \E r \in late : r.job = j

OrphansHaveCause ==
    \A j \in Jobs : status[j] = "running" =>
        \/ InHand(j)
        \/ VerdictUnderWay(j)
        \/ j \in unseen
        \/ fate[j] = "cancelled" /\ shutdown
        \/ fate[j] \in {"crashed", "lost"}

\* A heartbeat thread beats for a job that is being run or on its last round; it
\* outlives its run only if the scratch directory failed (worker.py:167-174).
HeartbeatOutlivesOnlyCrash ==
    \A j \in Jobs : hb[j] # "none" /\ j # job =>
        \/ hbStop[j]
        \/ fate[j] = "crashed"

-----------------------------------------------------------------------------
(* Liveness *)

\* A signal stops the worker, whatever the network, the trainer or the server do
\* (worker.py:208 and 289).
ShutdownStops == shutdown ~> pc = "stopped"

\* A raised cancel flag ends the run it belongs to.
CancelEndsRun == \A j \in Jobs : (cancelFlag[j] /\ job = j) ~> job # j

\* A stopped heartbeat thread goes away, unless the process goes first.
StoppedHeartbeatEnds ==
    \A j \in Jobs : (hb[j] # "none" /\ hbStop[j]) ~> (hb[j] = "ended" \/ pc = "stopped")

\* How the worker's state shows in the ledger.
Ledger == INSTANCE JobLedger WITH
    holder <- job, left <- {j \in Jobs : fate[j] # "none"}, stored <- uploaded, decided <- posted

\* The worker keeps the promise of JobLedger to the server: one job at a time, each
\* at most once, at most one verdict, decided while it holds the job; nothing else
\* ever changes a status.
KeepsLedgerSafely == Ledger!SafeSpec

\* What was completed or failed stays so, and no job goes back: whichever attempt of a
\* verdict is handled, repeated or overdue, the run has decided for no other
\* (callbacks.py:184-199, worker.py:230-248).
StatusMovesOn == Ledger!StatusMovesOn

\* The liveness of the ledger: if training ends, the worker lets go of every job it
\* takes, whatever is lost, cancelled or signalled meanwhile.
LetsGoOfJobs == FiniteTraining => Ledger!LetsGo

-----------------------------------------------------------------------------
(* The inductive invariant behind the safety properties, in named parts. *)

\* The main thread holds a job exactly where _run_one_job is active.
JobHeld == job = NoJob <=> pc \in {"poll", "claiming", "waiting", "stopped"}

\* Each thread is in the call its location says, for the job it works on.
MainCall ==
    /\ pc = "claiming" =>
          /\ call[Main].op = "claim" /\ call[Main].phase # "idle"
          /\ call[Main].phase \in {"sent", "raised"} => call[Main].reply = NoJob
    /\ pc = "reporting" =>
          call[Main].op = "progress" /\ call[Main].job = job /\ call[Main].phase # "idle"
    /\ pc = "posting" =>
          call[Main].op \in Verdicts /\ call[Main].job = job /\ call[Main].phase # "idle"
    /\ pc \notin {"claiming", "reporting", "posting"} => call[Main] = Idle

HeartbeatCall ==
    \A j \in Jobs : call[j].phase # "idle" => call[j].op = "heartbeat" /\ call[j].job = j

Control == TypeOK /\ JobHeld /\ MainCall /\ HeartbeatCall

\* A job nobody has started on: neither thread, nor verdict, nor end.
Untouched(j) ==
    /\ fate[j] = "none" /\ hb[j] = "none"
    /\ \A v \in Verdicts : <<j, v>> \notin posted

Fresh ==
    /\ \A j \in Jobs : status[j] = "pending" => Untouched(j) /\ j # job
    /\ pc = "claiming" /\ call[Main].reply \in Jobs =>
          Untouched(call[Main].reply) /\ status[call[Main].reply] # "pending"

\* The run in progress.
RunInProgress ==
    job # NoJob =>
        /\ status[job] # "pending"
        /\ fate[job] = "none"
        /\ pc = "setup" => Untouched(job)
        /\ pc # "posting" => \A v \in Verdicts : <<job, v>> \notin posted
        /\ pc \in {"setup", "scratch"} => ~told /\ stage = "live"
        /\ pc \in {"upload", "posting"} => hb[job] = "none" \/ hbStop[job]
        /\ stage = "replay" => job \in ReplayJobs
        /\ told /\ pc = "upload" => stage = "replay"
        /\ told /\ pc = "posting" => job \in SubprocessJobs
        /\ told => job \in userCancelled \/ shutdown

\* Every verdict that is under way or took effect was decided.
VerdictsDecided ==
    /\ \A r \in late : <<r.job, r.op>> \in posted
    /\ pc = "posting" => <<job, call[Main].op>> \in posted
    /\ \A j \in Jobs : <<j, "complete">> \in posted => j \in uploaded
    /\ \A j \in Jobs : status[j] = "completed" => <<j, "complete">> \in posted

\* A verdict or a cancel settles a job: it is never pending or running again.
Settled(j) == status[j] \notin {"pending", "running"}
Answered(t) == call[t].phase \in {"served", "done"}

SettledJobs ==
    /\ \A j \in Jobs : j \in userCancelled \/ fate[j] = "posted" => Settled(j)
    /\ pc = "posting" /\ Answered(Main) => Settled(job)

\* Everything that says "stop" goes back to a user.
StopsHaveCause ==
    /\ \A j \in Jobs : status[j] = "cancelled" => j \in userCancelled
    /\ \A j \in Jobs : Answered(j) /\ call[j].reply = "stop" => j \in userCancelled
    /\ pc = "reporting" /\ Answered(Main) /\ call[Main].reply = "stop" =>
          job \in userCancelled

IInv ==
    /\ Control /\ Fresh /\ RunInProgress /\ VerdictsDecided /\ SettledJobs /\ StopsHaveCause
    /\ OneVerdict /\ CompletedHasArtifact /\ CancelFlagHasCause /\ SilentEndHasCause
    /\ OrphansHaveCause /\ HeartbeatOutlivesOnlyCrash
=============================================================================
