------------------------------- MODULE Worker -------------------------------
(***************************************************************************)
(* The worker process (worker.py): the main thread that claims jobs and    *)
(* runs them one at a time, one heartbeat thread per job run, the shutdown *)
(* flag of the signal handler, and the calls all of them make through the  *)
(* shared ServerClient of module Callbacks.                                *)
(*                                                                         *)
(* The trainer is the part of a run between two calls of on_progress: it   *)
(* reports, returns an artifact, or raises.  Two families differ in what   *)
(* they do once on_progress has returned False:                            *)
(*   - in-process loops (stub, smolvla_lora, gr00t_lerobot, reward_model)  *)
(*     raise CancelledError at that very point;                            *)
(*   - trainers with a child process (gr00t_n1, annotate) kill the child   *)
(*     first, and raise TimeoutExpired instead when it survives SIGKILL    *)
(*     for ten seconds; gr00t_n1 also replays its log after the child has  *)
(*     exited, and there ignores what on_progress returns.                 *)
(***************************************************************************)
EXTENDS Callbacks

CONSTANTS
    Main,              \* the main thread; the other threads are named by their job
    SubprocessJobs,    \* the jobs whose trainer runs a child process
    ReplayJobs         \* those of them that replay the training log at the end

ASSUME ThreadsAssumption == Threads = Jobs \cup {Main} /\ Main \notin Jobs
ASSUME TrainersAssumption == ReplayJobs \subseteq SubprocessJobs /\ SubprocessJobs \subseteq Jobs

VARIABLES
    pc,            \* where the main thread is
    job,           \* the job _run_one_job is working on, or NoJob
    stage,         \* the trainer: "live", or "replay" when it ignores the answer
    told,          \* on_progress has returned False to this trainer
    shutdown,      \* _shutdown.is_set()
    hb,            \* job -> where its heartbeat thread is
    hbStop,        \* job -> HeartbeatThread._stop.is_set()
    cancelFlag,    \* job -> cancel_flag.is_set()
    uploaded,      \* the jobs whose artifact is in the model bucket
    posted,        \* history: <<job, verdict>> pairs the worker set out to post
    fate           \* history: job -> how its run ended

remoteVars  == <<serverVars, backlogVars>>
trainerVars == <<stage, told>>
mainVars == <<pc, job, trainerVars, shutdown>>
hbVars   == <<hb, hbStop, cancelFlag>>
runVars  == <<uploaded, posted, fate>>
vars == <<serverVars, clientVars, mainVars, hbVars, runVars>>

MainLocs == {"poll", "claiming", "waiting", "setup", "scratch", "train",
             "reporting", "upload", "posting", "stopped"}
HbLocs   == {"none", "check", "beating", "resting", "ended"}
Fates    == {"none", "cancelled", "crashed", "posted", "lost"}

Init ==
    /\ ServerInit
    /\ ClientInit
    /\ pc = "poll" /\ job = NoJob /\ stage = "live" /\ told = FALSE /\ shutdown = FALSE
    /\ hb = [j \in Jobs |-> "none"]
    /\ hbStop = [j \in Jobs |-> FALSE]
    /\ cancelFlag = [j \in Jobs |-> FALSE]
    /\ uploaded = {} /\ posted = {}
    /\ fate = [j \in Jobs |-> "none"]

-----------------------------------------------------------------------------
(* The loop of main. *)

PollClaim ==
    /\ pc = "poll" /\ ~shutdown
    /\ Issue(Main, "claim", NoJob)
    /\ pc' = "claiming"
    /\ UNCHANGED <<remoteVars, job, trainerVars, shutdown, hbVars, runVars>>

\* Claiming gave a job, none, or an exception; the last two wait poll_interval_sec.
ClaimReturns ==
    /\ pc = "claiming"
    /\ Consume(Main)
    /\ IF call[Main].reply \in Jobs
       THEN /\ pc' = "setup"
            /\ job' = call[Main].reply
       ELSE /\ pc' = "waiting"
            /\ UNCHANGED job
    /\ stage' = "live" /\ told' = FALSE
    /\ UNCHANGED <<remoteVars, shutdown, hbVars, runVars>>

WaitEnds ==
    /\ pc = "waiting"
    /\ pc' = "poll"
    /\ UNCHANGED <<remoteVars, call, job, trainerVars, shutdown, hbVars, runVars>>

\* The loop condition is only read here: a shutdown during a claim still runs
\* the claimed job up to its first on_progress.
StopLoop ==
    /\ pc = "poll" /\ shutdown
    /\ pc' = "stopped"
    /\ UNCHANGED <<remoteVars, call, job, trainerVars, shutdown, hbVars, runVars>>

-----------------------------------------------------------------------------
(* _run_one_job *)

PostVerdict(verdict) ==
    /\ Issue(Main, verdict, job)
    /\ posted' = posted \cup {<<job, verdict>>}
    /\ pc' = "posting"

\* _run_one_job is left, normally or by an exception.
LeaveJob(how) ==
    /\ job' = NoJob
    /\ pc' = "poll"
    /\ fate' = [fate EXCEPT ![job] = how]

StopHeartbeat == hbStop' = [hbStop EXCEPT ![job] = TRUE]

\* Mutant: a trainer that cannot be set up is only logged.
SetupFails_Unreported ==
    /\ pc = "setup"
    /\ LeaveJob("cancelled")
    /\ UNCHANGED <<remoteVars, call, trainerVars, shutdown, hbVars, uploaded, posted>>

SetupFails ==
    /\ pc = "setup"
    /\ PostVerdict("failed")
    /\ UNCHANGED <<remoteVars, job, trainerVars, shutdown, hbVars, uploaded, fate>>

SetupSucceeds ==
    /\ pc = "setup"
    /\ hb' = [hb EXCEPT ![job] = "check"]
    /\ pc' = "scratch"
    /\ UNCHANGED <<remoteVars, call, job, trainerVars, shutdown, hbStop, cancelFlag, runVars>>

ScratchReady ==
    /\ pc = "scratch"
    /\ pc' = "train"
    /\ UNCHANGED <<remoteVars, call, job, trainerVars, shutdown, hbVars, runVars>>

\* tempfile.TemporaryDirectory raises (disk full, bad TMPDIR).  The exception
\* passes through _run_one_job to the catch-all of main: the heartbeat thread is
\* not stopped and nothing is posted.
ScratchFails ==
    /\ pc = "scratch"
    /\ LeaveJob("crashed")
    /\ UNCHANGED <<remoteVars, call, trainerVars, shutdown, hbVars, uploaded, posted>>

-----------------------------------------------------------------------------
(* The trainer and on_progress. *)

Report ==
    /\ pc = "train"
    /\ told => stage = "replay"
    /\ Issue(Main, "progress", job)
    /\ pc' = "reporting"
    /\ UNCHANGED <<remoteVars, job, trainerVars, shutdown, hbVars, runVars>>

\* Mutants: a failed POST stops the training; the answer, the flag of the heartbeat or
\* the shutdown flag is not read.
KeepGoing_PostMustSucceed ==
    /\ call[Main].phase = "done" /\ call[Main].reply # "stop"
    /\ ~cancelFlag[job]
    /\ ~shutdown
KeepGoing_AnswerUnread == ~cancelFlag[job] /\ ~shutdown
KeepGoing_FlagUnread ==
    /\ ~(call[Main].phase = "done" /\ call[Main].reply = "stop")
    /\ ~shutdown
KeepGoing_ShutdownUnread ==
    /\ ~(call[Main].phase = "done" /\ call[Main].reply = "stop")
    /\ ~cancelFlag[job]

\* What on_progress returns: an exception of the POST is logged and swallowed.
KeepGoing ==
    /\ ~(call[Main].phase = "done" /\ call[Main].reply = "stop")
    /\ ~cancelFlag[job]
    /\ ~shutdown

ReportReturns ==
    /\ pc = "reporting"
    /\ Consume(Main)
    /\ told' = (told \/ ~KeepGoing)
    /\ pc' = "train"
    /\ UNCHANGED <<remoteVars, job, stage, shutdown, hbVars, runVars>>

\* The child exited by itself; gr00t_n1 streams its trainer_state.json.
StartReplay ==
    /\ pc = "train" /\ stage = "live" /\ ~told
    /\ job \in ReplayJobs
    /\ stage' = "replay"
    /\ UNCHANGED <<remoteVars, call, pc, job, told, shutdown, hbVars, runVars>>

\* Mutant: the heartbeat thread of a cancelled run is not stopped.
TrainerCancels_HeartbeatGoesOn ==
    /\ pc = "train" /\ told /\ stage = "live"
    /\ LeaveJob("cancelled")
    /\ UNCHANGED <<remoteVars, call, trainerVars, shutdown, hbVars, uploaded, posted>>

TrainerCancels ==
    /\ pc = "train" /\ told /\ stage = "live"
    /\ StopHeartbeat
    /\ LeaveJob("cancelled")
    /\ UNCHANGED <<remoteVars, call, trainerVars, shutdown, hb, cancelFlag, uploaded, posted>>

TrainerRaises ==
    /\ pc = "train"
    /\ told => job \in SubprocessJobs
    /\ StopHeartbeat
    /\ PostVerdict("failed")
    /\ UNCHANGED <<remoteVars, job, trainerVars, shutdown, hb, cancelFlag, uploaded, fate>>

TrainerReturns ==
    /\ pc = "train"
    /\ told => stage = "replay"
    /\ StopHeartbeat
    /\ pc' = "upload"
    /\ UNCHANGED <<remoteVars, call, job, trainerVars, shutdown, hb, cancelFlag, runVars>>

-----------------------------------------------------------------------------
(* The end of a run. *)

\* Mutant: /complete is posted before the upload.
UploadSucceeds_TooEarly ==
    /\ pc = "upload"
    /\ PostVerdict("complete")
    /\ UNCHANGED <<remoteVars, job, trainerVars, shutdown, hbVars, uploaded, fate>>

UploadSucceeds ==
    /\ pc = "upload"
    /\ uploaded' = uploaded \cup {job}
    /\ PostVerdict("complete")
    /\ UNCHANGED <<remoteVars, job, trainerVars, shutdown, hbVars, fate>>

UploadFails ==
    /\ pc = "upload"
    /\ PostVerdict("failed")
    /\ UNCHANGED <<remoteVars, job, trainerVars, shutdown, hbVars, uploaded, fate>>

\* Mutant: the verdict is posted until it is answered.
PostReturns_UntilAnswered ==
    /\ pc = "posting" /\ call[Main].phase = "done"
    /\ Consume(Main)
    /\ LeaveJob("posted")
    /\ UNCHANGED <<remoteVars, trainerVars, shutdown, hbVars, uploaded, posted>>

\* Mutant: a /complete that raised is followed by a fresh upload, which may fail.
PostReturns_UploadsAgain ==
    /\ pc = "posting"
    /\ Consume(Main)
    /\ IF call[Main].phase = "raised" /\ call[Main].op = "complete"
       THEN pc' = "upload" /\ UNCHANGED <<job, fate>>
       ELSE LeaveJob(IF call[Main].phase = "done" THEN "posted" ELSE "lost")
    /\ UNCHANGED <<remoteVars, trainerVars, shutdown, hbVars, uploaded, posted>>

\* Whether the verdict arrived or its POST raised, the run is over.
PostReturns ==
    /\ pc = "posting"
    /\ Consume(Main)
    /\ LeaveJob(IF call[Main].phase = "done" THEN "posted" ELSE "lost")
    /\ UNCHANGED <<remoteVars, trainerVars, shutdown, hbVars, uploaded, posted>>

-----------------------------------------------------------------------------
(* HeartbeatThread.run for the job j; a daemon thread, never joined. *)

\* Mutant: the loop of the heartbeat thread does not look at its stop flag.
HeartbeatBegins_StopUnread(j) ==
    /\ pc # "stopped" /\ hb[j] = "check"
    /\ Issue(j, "heartbeat", j)
    /\ hb' = [hb EXCEPT ![j] = "beating"]
    /\ UNCHANGED <<remoteVars, mainVars, hbStop, cancelFlag, runVars>>

HeartbeatBegins(j) ==
    /\ pc # "stopped" /\ hb[j] = "check" /\ ~hbStop[j]
    /\ Issue(j, "heartbeat", j)
    /\ hb' = [hb EXCEPT ![j] = "beating"]
    /\ UNCHANGED <<remoteVars, mainVars, hbStop, cancelFlag, runVars>>

HeartbeatExits(j) ==
    /\ pc # "stopped" /\ hb[j] = "check" /\ hbStop[j]
    /\ hb' = [hb EXCEPT ![j] = "ended"]
    /\ UNCHANGED <<remoteVars, call, mainVars, hbStop, cancelFlag, runVars>>

\* Mutant: the flag raised is that of the job being run, not of the thread's own.
HeartbeatReturns_SharedFlag(j) ==
    /\ pc # "stopped" /\ hb[j] = "beating"
    /\ Consume(j)
    /\ IF call[j].phase = "done" /\ call[j].reply = "stop"
       THEN /\ cancelFlag' = [k \in Jobs |-> k = job \/ cancelFlag[k]]
            /\ hb' = [hb EXCEPT ![j] = "ended"]
       ELSE /\ hb' = [hb EXCEPT ![j] = "resting"]
            /\ UNCHANGED cancelFlag
    /\ UNCHANGED <<remoteVars, mainVars, hbStop, runVars>>

HeartbeatReturns(j) ==
    /\ pc # "stopped" /\ hb[j] = "beating"
    /\ Consume(j)
    /\ IF call[j].phase = "done" /\ call[j].reply = "stop"
       THEN /\ cancelFlag' = [cancelFlag EXCEPT ![j] = TRUE]
            /\ hb' = [hb EXCEPT ![j] = "ended"]
       ELSE /\ hb' = [hb EXCEPT ![j] = "resting"]
            /\ UNCHANGED cancelFlag
    /\ UNCHANGED <<remoteVars, mainVars, hbStop, runVars>>

HeartbeatWakes(j) ==
    /\ pc # "stopped" /\ hb[j] = "resting"
    /\ hb' = [hb EXCEPT ![j] = "check"]
    /\ UNCHANGED <<remoteVars, call, mainVars, hbStop, cancelFlag, runVars>>

-----------------------------------------------------------------------------
(* The surroundings. *)

Signal ==
    /\ pc # "stopped" /\ ~shutdown
    /\ shutdown' = TRUE
    /\ UNCHANGED <<remoteVars, call, pc, job, trainerVars, hbVars, runVars>>

\* The threads of a stopped process make no more progress; the requests they
\* sent may still be handled.
NetworkStep(t) ==
    /\ pc # "stopped"
    /\ CallStep(t)
    /\ UNCHANGED <<mainVars, hbVars, runVars>>

Overdue ==
    /\ LateStep
    /\ UNCHANGED <<mainVars, hbVars, runVars>>

Cancel(j) ==
    /\ UserCancel(j)
    /\ UNCHANGED <<clientVars, mainVars, hbVars, runVars>>

-----------------------------------------------------------------------------
TrainerEnds == TrainerCancels \/ TrainerRaises \/ TrainerReturns

MainStep == \/ PollClaim \/ ClaimReturns \/ WaitEnds \/ StopLoop
            \/ SetupFails \/ SetupSucceeds \/ ScratchReady \/ ScratchFails
            \/ Report \/ ReportReturns \/ StartReplay \/ TrainerEnds
            \/ UploadSucceeds \/ UploadFails \/ PostReturns

HeartbeatStep(j) == HeartbeatBegins(j) \/ HeartbeatExits(j)
                        \/ HeartbeatReturns(j) \/ HeartbeatWakes(j)

Next == \/ MainStep
        \/ \E j \in Jobs : HeartbeatStep(j)
        \/ \E t \in Threads : NetworkStep(t)
        \/ Overdue
        \/ \E j \in Jobs : Cancel(j)
        \/ Signal

\* The operating system schedules every thread; httpx bounds every attempt by its
\* timeout; a live trainer calls on_progress again and again, and the replay of
\* gr00t_n1 covers finitely many points, so it ends although it reports in between.
\* Training itself may take for ever, a user need not cancel, nobody need send a
\* signal.
ReplayEnds == stage = "replay" /\ TrainerEnds

Fairness ==
    /\ WF_vars(MainStep)
    /\ SF_vars(ReplayEnds)
    /\ \A j \in Jobs : WF_vars(HeartbeatStep(j))
    /\ \A t \in Threads : WF_vars(NetworkStep(t))

Spec == Init /\ [][Next]_vars /\ Fairness

\* The trainers are finite loops or child processes that exit: a trainer that may
\* end does end, even if it reports in between.
FiniteTraining == SF_vars(TrainerEnds)
SpecWithFiniteTraining == Spec /\ FiniteTraining
=============================================================================
