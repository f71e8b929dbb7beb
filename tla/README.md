# Training worker: a TLA+ model

The training worker runs beside a GPU. It claims jobs from the NeoDEM server over HTTP, downloads
the dataset of a job from S3, trains or evaluates, uploads the artifact and tells the server how it
went. A second program, the stats worker, takes messages from NATS JetStream and writes dataset
statistics. This directory models both, checks the models with TLC and proves what matters most
with TLAPS. Line numbers are those of the files under `src/`.

## The system

| Component | State it keeps | Operations | Speaks with |
|---|---|---|---|
| Main loop (`worker.py`) | the job in hand, the shutdown event | poll and claim, set up the trainer, train, upload, post the verdict | everything below |
| Heartbeat thread (`worker.py:49-79`) | stop event, cancel flag of its job | POST every 15 s, raise the flag, stop | callback client; never joined by the main thread |
| `on_progress` (`worker.py:190-208`) | none of its own | POST, read the answer, the flag and the shutdown event | called by the trainers |
| Callback client (`callbacks.py`) | the attempt counter of each call | claim, heartbeat, progress, complete, failed, with retries | the server, over a network that loses and delays |
| Trainers in the process (`stub.py`, `smolvla_lora.py`, `gr00t_lerobot.py`) | the dataset root, epoch, batch, `step_idx` | download, load, reload with action chunks, the training loop, save | S3, `on_progress` |
| GR00T on Isaac-GR00T (`gr00t_n1.py`) | the dataset root and version, a child process, its output, the shared step and loss, the last checkpoint merged | download, locate, convert, spawn, read, merge, poll, terminate, kill, join, replay, package | S3, converter, child, reader thread, `on_progress` |
| Annotation runner (`eval/annotate.py`) | a CLI child and its pipe, the staged episodes, the annotations | locate, spawn, poll, drain, count, terminate, choose a source, parse, filter | S3, child, `on_progress` |
| Reward-model runner (`eval/reward_model.py`) | the episode under way, its curve | resolve, sample windows, score | `on_progress` |
| Storage client (`storage.py`) | a pool of 16 threads during a download | list, download, ensure the model bucket, upload | S3, shared with other workers |
| Stats worker (`stats_worker.py`) | the message in hand, the shutdown event | fetch, decode, download, compute, upload, PUT, ACK, NAK | JetStream, S3, the server |

What is hard about it:

- **Interleavings.** The main thread, one lingering heartbeat thread per job and a signal handler
  share one client and some flags. The reader thread and the main thread of `gr00t_n1.py` both write
  the step and the loss. Sixteen threads write below a directory that the caller deletes on failure.
  Two stats workers may work on the same message, and two workers create the same bucket.
- **Unreliable calls.** A POST may act on the server although its answer is lost, may act after the
  client has given up, and is repeated up to four times.
- **Timeouts.** The wait for a terminated child, the join of a reader, the ack wait of JetStream:
  each may end while what it waits for goes on.
- **Ordering.** The artifact must be stored before `/complete`; stats must be stored and posted
  before the ACK; an exit must be seen before the last count of staged episodes.
- **Stale state.** A dataset root found once and looked for again, before and after a conversion
  moved it; a report of an earlier run; a checkpoint that is being written.
- **Counting.** Caps inside an epoch, strides, windows and rounded prefix ends.

What makes the parts correct, in a line each: the server is told one verdict per job and a true one;
a job that stays running on the server was left there for a known reason; a cancel reaches the run
it is meant for and no other; a download is complete or an error; a message is acknowledged only
when its work is done; a cancelled run leaves no child on the GPU; what is trained on, replayed, packaged and delivered belongs
together; every loop ends.

## The modules

In the order in which they build on each other. `PROJECT.json` ("map") gives the lines of every
definition.

**The server and the calls**

- `TrainingServer` (external). The job table as the worker's code relies on it: a claim makes a
  pending job running; `/complete` and `/failed` overwrite whatever is there; a cancelled job is
  answered with "stop". The server is not in the repository, so every operator quotes the line of
  the client that assumes it.
- `Callbacks`. `ServerClient`. `call[t]` is the blocking call the thread `t` is in, with its attempt
  and how far it got. One action each for: the server handles the request, the answer arrives, an
  error that `_post` retries (`callbacks.py:187`), an error that it does not, and a request that is
  handled after its attempt was given up. A retried attempt starts anew; the answer of an earlier
  one is never read.
- `CallbackClient`. The client on its own: threads that make any call at any time, with history
  variables for attempts and effects.
- `RemoteCall`. The abstract specification of a verdict call: it acts at least once if it returns,
  never more than `MaxRetries` times, and after an exception anything may be true.
- `CallbackProofs` holds the proofs about `CallbackClient`.

**The worker**

- `Worker`. `main`, `_run_one_job` and its `on_progress`, and `HeartbeatThread`, extending
  `Callbacks`. `pc` is where the main thread is; `hb`, `hbStop` and `cancelFlag` are the heartbeat
  thread, its stop event and the cancel flag of each job. Each way out of
  `_run_one_job` is an action. The trainer is what it can do between two calls of `on_progress`;
  whether it runs a child process, and whether it replays its log afterwards, are constants.
- `JobLedger`. The abstract specification of a worker for the server: it takes a job at most once
  and after the server assigned it, works on one at a time, decides at most one verdict while it
  does, completes only what it stored, lets go in the end, and nothing it did not decide takes effect.
  `StatusMovesOn` says what follows for the status of a job.
- `WorkerProps`. Type invariant, properties, the refinement mapping to `JobLedger`, and the inductive
  invariant `IInv`.
- `WorkerCancel`. The worker with a memory of the cancels that its run could not but hear of: those that
  were there when an `on_progress` began that was answered, or whose flag was up when one began.
  `WorkerProofs` holds the proofs about both modules.

**The trainers**

- `TrainerContract`. The abstract specification of `BaseTrainer.train`: a result, `CancelledError` or
  another exception, once; a result or a `CancelledError` leaves no child process behind;
  `CancelledError` only for a trainer that was told to stop; one that was told to stop, stops.
  `EndIsClean` says what follows for the job runner when it takes the next job.
- `DatasetRoot`. The three searches for the directory with `meta/info.json`, as operators on the set
  of directories that have one.
- `StubLoop`. The loop of `stub.py`, one step after the other. Also the abstract loop that the real
  ones implement.
- `TrainLoop`. `train` of `smolvla_lora.py` and `gr00t_lerobot.py`, whose control differs only in the
  search for the root: download, load, reload, policy, then the two nested loops with the cap looked
  at in two places, then saving. `TrainLoopProofs` holds the proofs.
- `Gr00tDataset`. What `gr00t_n1.py` does before the launch: environment, download, root, conversion of
  a v3 dataset (external, it moves the original to a backup), root again, modality files.
- `Gr00tStream`. Launch, `_run_and_stream`, `_replay_log_history` and `_package_artifact`: main thread,
  reader thread and child. The reads of the shared state are separate from the writes, the poll of
  the child from the use of its exit code, a checkpoint directory from its `trainer_state.json`, and
  the join may time out.
- `Gr00tTrainer`. The two composed, one after the other, with `train`'s ways out; it implements
  `TrainerContract`. `MCGr00tTrainer` gives the layouts of the bucket, `Gr00tProofs` holds the proofs.
- `AnnotateParse`. `_parse_episode` and `_pair_vqa`, row after row as the code reads them.
- `AnnotateRun`. `train` of the annotation runner: the CLI and its bounded pipe, the reports it or an
  earlier run left, and `AnnotateParse` (by INSTANCE) for each staged episode. It implements
  `TrainerContract`. `AnnotateProofs` holds the proofs.
- `RewardModel`. Episode selection, prefix ends, windows, and the loop over the episodes.
  `MCRewardModel` gives it the sets of hyperparameters, `RewardProofs` holds the proofs.

**Storage and statistics**

- `ParallelDownload`. `download_dataset` with `concurrent.futures`' pool: futures taken in order,
  results awaited in order, futures cancelled when a result raises, and the pool waited for.
- `ModelBucket`. `ensure_model_bucket` and `upload_artifact`, several workers at once.
- `JobStorage`. The two composed for one job: download, then the bucket it shares with the jobs of other
  workers. `StorageProofs` holds the proofs about all three.
- `DatasetStats`. `compute_dataset_stats` as an operator: which columns of which files the statistics
  of a feature are computed from.
- `StatsWorker`. The fetch loop and the steps of `process_stats_job`, several processes, and
  JetStream (external) with deliveries, ack waits, lost ACKs and its bound on deliveries. A message is
  about a dataset, whose statistics `DatasetStats` gives. `MCStatsWorker` gives the datasets,
  `StatsProofs` holds the proofs.

The types of each concrete state machine (`TypeOK`, or the first conjunct of its invariant) are part of the
inductive invariants that are proved.

Definitions named `X_Something` are faulty variants of `X` and are used by no specification. They
record, for each property, a plausible bug that breaks it.

## The runs

| Run | Shows | Bounds, and why they are enough |
|---|---|---|
| `callback_retry` | `ClaimsAccountedFor`, `CallsEnd`, `IsRemoteCall` | One job, one thread, the four attempts of the code. Calls of two threads share no state of the client, verdicts of two jobs share none at all, and the safety part is proved for any number of both |
| `callback_transient` | `TransientErrorsAreRetried` is violated | as above |
| `worker_two_jobs` | `HeardCancelIsHeeded`, `CancelFlagHasCause`, `SilentEndHasCause`, `OrphansHaveCause`, `HeartbeatOutlivesOnlyCrash`, `StatusMovesOn`, `KeepsLedgerSafely` | Two jobs, so that a late heartbeat of the first meets the second; one with an in-process trainer, one with a child process and a replay. One attempt per call, because a call of several is a call of one that lasts longer (`callback_retry`) |
| `worker_live` | `ShutdownStops`, `CancelEndsRun`, `StoppedHeartbeatEnds`, `LetsGoOfJobs` | One job, two attempts, one claim that may be late |
| `worker_clobber` | `CancelledStaysCancelled` is violated | as `worker_two_jobs` |
| `train_loop` | `SavedMeansFullyTrained`, `MetricCountsSteps`, `SameRootTwice`, `IsFlatLoop` | 0 to 3 epochs of 1 to 3 batches; caps of 0, below, at and above each end of an epoch and the total; three directories, one of them not directly below the prefix, each with or without a dataset |
| `dataset_reload` | `SubdirDatasetsReload` is violated | as above |
| `download` | `ReturnMeansComplete`, `OverMeansQuiet`, `LostRaceHasWinner`, `DownloadEnds` | Up to six objects, three threads: queued, running and finished futures at the same time. Two workers: one that looks and one that creates in between |
| `stats_worker` | `SettledMeansDone`, `PostedMeansStored`, `PostedStatsTakeFramesOnce`, `JobsLeaveTheQueue`, `SignalStops` | One message, two processes, the three deliveries of the consumer. Messages share nothing but the time of a process; the proofs cover any number. Datasets of no, one and two files: whole, unreadable, two columns of one feature, lists, no feature |
| `gr00t` | `LaunchedDatasetFits`, `ArtifactIsReplayed`, `ReplayCorrectsCurve`, `RunEnds`, `IsTrainer` | Six layouts: nothing, v2 or v3 at the prefix, v3 below it, with a foreign backup sorted before it, with its own backup after it. Two steps, four lines, replay limit one: the stride is 1 for a history of one point and 2 for two, whose last one it would pass over |
| `annotate` | `LastEventCountsAll`, `SpansTile`, `PairsAreAnswers`, `RunEnds`, `IsTrainer` | Three lines and a pipe of two, two episodes, all plans and vqa files of up to three rows together, timestamps missing, 0, equal and out of order; three is the least at which an answer can follow a wrong question or a span end at the wrong start |
| `reward_model` | `WindowFits`, `CurveCoversEpisode` | Two episodes of 0 to 9 frames, windows of 1 to 6, curves of 1 to 5 points: all ties of the rounding occur |

`CHECK_DEADLOCK FALSE` stands in the configurations of systems that end: a worker that was shut
down, a run that returned or raised, a stats worker that stopped.

Bounds that the code does not have: `MaxLateClaims` (claims that outlive their attempt; a late
claim only moves a job from pending to running and to `unseen`, so one is as good as many),
`MaxObjects`, `MaxStep`, `MaxLines`, `MaxLength`, `MaxPlan`, `MaxRows`, and the sets `Episodes`, `Stamps`,
`EpochChoices`, `BatchChoices`, `CapChoices`, `Layouts`, `Datasets`.
`MaxRetries`, `PoolSize`, `MaxDeliver` and `ReplayLimit` are constants of the code.

### Fairness

- Worker: weak fairness of the main thread, of each heartbeat thread and of each attempt of a call.
  The operating system schedules threads, and httpx bounds each attempt by a timeout
  (`callbacks.py:69`). Strong fairness of the end of a replay, because the loop over the sampled
  points is finite (`gr00t_n1.py:662-678`) although the model lets it report again and again. Nothing
  makes training end: `ShutdownStops` and `CancelEndsRun` hold without it. `LetsGoOfJobs` assumes it
  in its own statement.
- Callback client: every attempt ends. Nothing makes the server answer.
- Download: the caller and the pool go on; nothing makes another worker do anything. A transfer ends
  because boto3 has timeouts of its own.
- Stats worker: a process takes its next step unless it is killed; a fetch that again and again meets
  an available message gets it (strong fairness); an ack wait ends.
- GR00T: the main thread goes on and the reader parses what is there. The child owes nothing, not
  even an exit after SIGKILL.
- Annotation: the main thread goes on, and the CLI prints or exits whenever its pipe has room; this is
  what makes `RunEnds` a statement about the draining.
- Train loop: `train` goes on.

## What is proved

For all values of the constants, under the named assumptions of the modules, all of which TLC evaluates:
that `NoJob`, `Nobody` and the answers of the server are no jobs and no workers
(`NoJobAssumption`, `NobodyAssumption`, `RepliesAssumption`), that bounds are naturals and limits not zero
(`MaxRetriesAssumption`, `MaxLateClaimsAssumption`, `PoolAssumption`, `DeliverAssumption`,
`LimitAssumption`, `ChoicesAssumption`, `AnnotateAssumption`, `RewardAssumption`), that the column names of
a parquet file are distinct (`DatasetsAssumption`; pyarrow raises when one of two equal names is asked for, and
the job fails), and which set is part of which (`ThreadsAssumption`, `TrainersAssumption`, `DirsAssumption`, `LayoutsAssumption`: a converter moves
a dataset to a directory with the name of a backup).

Each safety property of the passing runs is proved, the safety parts of the refinements among them. None of the inductive invariants below is a conjunction of those
properties alone. `OneVerdict`, `CompletedHasArtifact`, `EffectsWithinTries`, `EarlierKeysAreThere`,
`ReplayBounded` and `EndIsClean` are proved and left out of the runs, as are the types; the last one follows from
the refinements the runs check.

**`CallbackProofs`.** `ClientInvariant`: `ClaimsKnown` says that only a claim answers with a job, no two
calls with the same one and none with a pending one; without it a second claim could take over the
account of the first. `VerdictsKnown` ties the attempts of a call to the tries that were counted, and
counts the requests still on their way. `ClaimsAccountedFor` and `EffectsWithinTries` follow, and
`ClientIsRemoteCall`: every step is one of `RemoteCall` or a stutter.

**`WorkerProofs`.** `InvariantHolds` proves that `IInv` is inductive; each safety property of
`worker_two_jobs` follows. None of them is inductive alone. The parts of `IInv`, and why they are
needed:

- `Control`: types, `job` is set exactly inside `_run_one_job`, and each thread is in the call that
  its location says. Without it an answer could be used for another job.
- `Fresh`: nothing has touched a pending job, nor the one that a claim is about to return. Gives
  "each job at most once", hence `OneVerdict` and the `Hold` of the ledger.
- `RunInProgress`: a run that is not posting has posted nothing; where the trainer stands fixes what
  it was told and whether the heartbeat was stopped. Gives `SilentEndHasCause`.
- `VerdictsDecided`: every verdict in flight, late or in effect was decided, and a decided
  "complete" was uploaded. Gives `CompletedHasArtifact` against requests that arrive late.
- `SettledJobs`: a verdict or a cancel is final. Gives `OrphansHaveCause`.
- `StopsHaveCause`: every "stop" on its way goes back to a user. Gives `CancelFlagHasCause`.

`HeardCancelIsHeeded` adds `CancelKnown` to `IInv`: a cancel that was there when `on_progress` began is in every
answer it gets (`AnswersShow`), so that a run that heard of it was told (`HeardIsTold`); a told run of an
in-process trainer can only raise `CancelledError`, and a verdict is posted for the job in hand only.

`WorkerImplementsLedger` is the refinement: initial states map to initial states, and under `IInv`
every step is a step of `JobLedger` or a stutter. Its liveness part is left to `worker_live`.

`StatusMovesOnHolds` is proved of the ledger, from an invariant of its five variables (`VerdictsKnown`: a closed
job shows the one verdict decided for it, a pending one has none and is not held), and carried over by the
refinement: no attempt of a verdict that is repeated or arrives late turns a completed job into a failed one
or takes a job back.

**`StorageProofs`.** `DownloadInvariant`: a done future has its file, the results counted so far are
of done futures, and the phase fixes the error and the position. `ReturnMeansComplete`,
`OverMeansQuiet` and `EarlierKeysAreThere` follow for any number of objects and threads. A bucket that somebody
created is there, and a worker about to create one it did not fail to see is not its creator
(`CreatorIsPast`); `BucketRace` follows for any number of workers. `JobKeepsPromises` carries all three
properties over to `JobStorage`: a step of the composition is a step of one part and leaves the other alone
(`StepsApart`).

**`StatsProofs`.** `StatsInvariant`: what a process knows of its message at each step
(`StepsInOrder`), and that an available message has a delivery left. `SettledMeansDone` and
`PostedMeansStored` follow for any messages, processes and deliveries.

`PostedStatsTakeFramesOnce` is about the values of `ComputeDatasetStats`. What is posted was computed from the
dataset of the message (`PostedKnown`), and whichever column a feature ends up with, its arrays have one name,
hence come from one column of each file (`DatasetsAssumption` is needed here). Where every file has the feature
in one column of numbers, that column is the one chosen and no file is left out (`OneColumnIsChosen`); that one
of its arrays is met first is a minimum argument on pairs of naturals.

**`TrainLoopProofs`.** `LoopInvariant`: `Counted` says where the step counter stands in the epochs, and that
it passes the cap only for a batch in the middle of an epoch, which then ends; the arithmetic of an
epoch times its batches is in lemmas of its own. `SavedMeansFullyTrained` and `MetricCountsSteps` follow
for any hyperparameters. `LoadKnown` says that the first root is still the one that a second search finds,
which gives `SameRootTwice`. `LoopsAreFlat` is the refinement to `StubLoop`.

**`Gr00tProofs`.** `TrainerInvariant`: `PrepInv` says that the root is the one the search finds now
(`ConvertKeepsRoot` proves it across the conversion), `IInv` what the main thread knows of child and
reader and that what was replayed is on the curve. Three properties follow, for any layout, number of
steps and replay limit, and `Gr00tKeepsContract`: every step of the composition is one of
`TrainerContract` or a stutter. `Gr00tEndIsClean` reads off the contract that a run that returns or is
cancelled has left no child on the GPU. `ReplayBounded` needs `ReplaySampled` (nothing but the points of the
newest checkpoint is replayed) and that the sampled points fit into 2 `ReplayLimit` slots: the index of a
point divided by the stride, and one slot for the last point.

**`AnnotateProofs`.** `ChildInvariant`: after the loop the child has exited and stages nothing more, so the last
count stays true. `AnnotateKeepsContract` is the refinement to `TrainerContract`, `AnnotateEndIsClean` what follows from it.

`ParseInvariant` is about the parser, which runs for each staged episode and rests otherwise (`ParseRests`).
`RowsInOrder` says that each row has its place in the order, `SpansSoFar` that the spans written so far tile
the time up to the row under way, and `PairsSoFar` that they are the questions answered so far and that the open
question is the last one read, with no row of either kind after it. A next
timestamp that is missing or 0 is replaced by the start of the span itself: right because the rows are sorted,
so that this start is 0 as well. The last span ends at the greatest timestamp, and starts no later
(`MaxStampIsLast`). `SpansTile` and `PairsAreAnswers` follow for any stamps and rows. The sorted
order itself is chosen by the model; that there is one is an induction over the rows and left to the run.

**`RewardProofs`.** `WindowFits` and `CurveCoversEpisode` come down to rounding to even: it is off by a half at
most (`RoundIsNear`), a whole quotient stays as it is (`RoundIsExact`), and quotients of numbers that are the
denominator or more apart are rounded to different numbers, ties included. So as many ends of prefixes are found as
points were asked for, the last one at the last frame, and a window has all its frames and needs none appended.
`CurveSoFar` is the inductive part: the points scored lie before the ends that are left, and together they
are as many as the curve shall have.

Only model-checked: all liveness, among it the fair parts of `IsRemoteCall`, `IsFlatLoop` and `IsTrainer` and
`LetsGoOfJobs` (the prover handles neither `ENABLED` nor fairness), and that the parser never lacks an order to
read its rows in, or the pool an object to start with (deadlock and progress).

## Where comments and code differ

Three runs end in a violation:

- `callbacks.py:4-5` "We must not drop callbacks on transient errors": only `ConnectError` and
  `TimeoutException` are retried, so a connection that is reset, or a 503, drops the callback in its
  first attempt (`callback_transient`).
- `worker.py:215-216` "Posting /failed here would clobber that state": a child that survives SIGKILL for ten
  seconds raises `TimeoutExpired` in place of `CancelledError` (`gr00t_n1.py:618`, `annotate.py:242`), and
  `/failed` is posted for the cancelled job (`worker_clobber`). The same property fails a second way:
  `trainers/base.py:113` says "If it returns False, stop early", but the replay drops what `on_progress` returns
  (`gr00t_n1.py:669`), and a job cancelled then is completed. This is why `HeardCancelIsHeeded` is about the
  in-process trainers.
- `smolvla_lora.py:264` "Maybe the bucket stored files under a repo_id subdir — check": the first load
  checks, the second (`smolvla_lora.py:315`) is given the download directory, where there is no
  `meta/info.json`, so that lerobot asks the Hub and is refused (`dataset_reload`). Such a dataset cannot
  be trained on; `gr00t_lerobot.py:256` looks for the root again.

Others are part of the models, and what is checked is stated so that it holds:

- `trainers/base.py:72-74` "the server has already marked the job as cancelled": a shutdown raises
  `CancelledError` too, nothing is posted, and the job stays running. `SilentEndHasCause` and
  `OrphansHaveCause` name the shutdown among the few causes.
- `gr00t_n1.py:679` "reader thread has joined by now": the join may time out, and a reader that is behind
  moves the final step and loss, which `/complete` reports, behind the replayed history. The model has it, no
  property forbids it.
- `gr00t_n1.py:645` "leaving the UI with the true curve": a live point at a step that the replay passes over
  stays as it is, with the loss of an earlier step. `ReplayCorrectsCurve` says what holds of the steps it visits.
- `gr00t_n1.py:644` "sampled to <=300 points": the stride is rounded down, so up to 599 points are replayed.
  `ReplayBounded` proves twice the limit.
- `annotate.py:23-25` "As a tolerant fallback": an `annotations.json` that came with the dataset is taken before
  the staged output (`annotate.py:291`), and replaces it. The model has it, no property forbids it.
- `gr00t_lerobot.py:138-140`: a cap inside an epoch makes `totalSteps` one more than the steps trained.
  `MetricCountsSteps` says exactly when.
- `annotate.py:97`: without the hyperparameter `episodes` the step of every event is at most 1 while
  the total grows. `LastEventCountsAll` states both.
- `stats_worker.py:122`: the columns of one feature overwrite each other, the last one met stays; a
  column of lists has no number type and is left out; a dataset with cameras and no numbers replaces
  `meta/stats.json` by the cameras alone. `DatasetStats` does the same, `PostedStatsTakeFramesOnce` says what
  holds all the same.
- `storage.py:147`: any error of `head_bucket` is taken for a missing bucket, and a bucket that another
  worker just created fails a finished job. `LostRaceHasWinner` says that this is the only such case.

## Not modelled

Tensor work, model loading and LoRA (libraries, one step each); the floating-point sums of the statistics
and `openloop_action_error.py` (no state); `config.py`; the text of command lines and modality files;
`checkpoint()` of the callback client, which has no caller; the HTTP poller of the stats worker, which
only waits; build files, scripts and CI. In `storage.py`, keys that name both a file and a directory
(folder placeholders below the prefix) are left to S3.

Taken for granted about the environment: a child of `gr00t_n1.py` that exits with 0 has finished its last
checkpoint, and the `uv run` that starts it (`gr00t_n1.py:529-531`) ends with it, so that the two are one process in
the model; NATS hands out messages again after a fetch that found none, a connection that is closed for
good being outside the model; timestamps of staged rows are not negative.

`worker.py:172` starts the heartbeat before the scratch directory is made. If that fails, the thread goes on without
a run: `HeartbeatOutlivesOnlyCrash` and `OrphansHaveCause` name this among their causes, they do not exclude
it. Nor does `PostedStatsTakeFramesOnce` exclude statistics of a part of the frames (`stats_worker.py:90`), nor
`HeardCancelIsHeeded` that a cancel after the last `on_progress` is overwritten (`worker.py:230`).

`worker.py:227` stops the heartbeat before the artifact is uploaded; what the server makes of the silence
is not in the repository, so no property is about it.

## Plan

Done, in this order: `TrainingServer`, `Callbacks`, `CallbackClient`, `Worker` with `JobLedger`, `StatsWorker`,
`ParallelDownload`, `TrainLoop`, `Gr00tStream`, `AnnotateRun`, `AnnotateParse`, `RewardModel`; then
`TrainerContract`, `DatasetRoot`, `Gr00tDataset`, `Gr00tTrainer`, `ModelBucket`, `JobStorage`,
`DatasetStats`; and the eight proof modules.

Next:

1. `Dispatch`: the choice of a trainer by kind and base model, with the kinds the worker asks for
   (`_pick_trainer` lowers the case of a kind, `config.py` does not).
2. A composition of `TrainerContract` with `Worker`, in place of the constants that describe the trainers
   there.
3. Proofs: that `TrainLoop` and `RewardModel`, which have no child, keep the contract as well; that a
   worker whose trainers keep it takes the next job with nothing left behind.
