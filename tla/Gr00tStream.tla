---------------------------- MODULE Gr00tStream ----------------------------
(***************************************************************************)
(* Gr00tTrainer (trainers/gr00t_n1.py) while its child process trains: the *)
(* main thread polls and reports, a daemon thread parses what the child    *)
(* prints, both write the shared state under a lock; a cancelled child is  *)
(* terminated, then killed; after a clean exit the log history of the last *)
(* checkpoint is replayed.                                                 *)
(*                                                                         *)
(* The child is external (Isaac-GR00T), as is the `uv run` that starts it  *)
(* and ends with it; the two are one process here.  It trains MaxStep      *)
(* steps and prints two lines for each: line 2n-1 is the progress bar of   *)
(* step n, line 2n its loss; a quiet variant prints nothing that parses.   *)
(* A loss is named by the step it belongs to; 0 is the initial loss 0.0.   *)
(* A checkpoint at step n holds the log history of the steps 1 .. n; its   *)
(* trainer_state.json is the last file of its directory to be written.     *)
(***************************************************************************)
EXTENDS Integers, FiniteSets

CONSTANTS
    MaxStep,       \* bound: steps the child trains
    ReplayLimit    \* points the replay is sampled to (300 in the code)

ASSUME LimitAssumption == MaxStep \in Nat \ {0} /\ ReplayLimit \in Nat \ {0}

VARIABLES
    quiet,       \* the child prints nothing that parses; fixed
    child,       \* "none", "running", or its exit: "ok", "bad"
    wrote,       \* lines printed so far
    ckpt,        \* step of the newest checkpoint with a trainer_state.json, 0 for none
    saving,      \* step of the newest checkpoint directory, ckpt if it is complete
    read,        \* lines parsed so far
    reader,      \* the reader thread: "reading" or "ended"
    state,       \* state["step"] and state["loss"]
    seen,        \* ts_mtime: the checkpoint merged last
    pc,          \* where the main thread is
    exited,      \* ret is not None, as the last poll saw it
    todo,        \* the points of the log history still to be replayed
    replayed,    \* history: the steps the replay reported
    curve,       \* step -> the loss last passed to on_progress for it, NoPoint for none;
                 \* what the server holds if every progress callback reaches it
    artifact,    \* the checkpoint that was packaged, 0 for the whole output directory
    error        \* what was raised, "none" before

childVars == <<quiet, child, wrote, ckpt, saving>>
readerVars == <<read, reader>>
replayVars == <<todo, replayed>>
endVars == <<replayVars, artifact, error>>
vars == <<childVars, readerVars, state, seen, pc, exited, endVars, curve>>

Steps == 0 .. MaxStep
NoPoint == -1
StepsTrained == (wrote + 1) \div 2
Larger(a, b) == IF a > b THEN a ELSE b

Init == /\ quiet \in BOOLEAN
        /\ child = "none" /\ wrote = 0 /\ ckpt = 0 /\ saving = 0
        /\ read = 0 /\ reader = "reading"
        /\ state = [step |-> 0, loss |-> 0]
        /\ seen = 0
        /\ pc = "launch" /\ exited = FALSE
        /\ todo = {} /\ replayed = {} /\ artifact = 0
        /\ curve = [s \in Steps |-> NoPoint]
        /\ error = "none"

-----------------------------------------------------------------------------
(* The child process. *)

PrintLine == /\ child = "running" /\ wrote < 2 * MaxStep
             /\ wrote' = wrote + 1
             /\ UNCHANGED <<quiet, child, ckpt, saving, readerVars, state, seen, pc, exited, endVars, curve>>

BeginCheckpoint == /\ child = "running" /\ saving = ckpt
                   /\ \E n \in ckpt + 1 .. StepsTrained : saving' = n
                   /\ UNCHANGED <<quiet, child, wrote, ckpt, readerVars, state, seen, pc, exited,
                                  endVars, curve>>

CheckpointSaved == /\ child = "running" /\ ckpt < saving
                   /\ ckpt' = saving
                   /\ UNCHANGED <<quiet, child, wrote, saving, readerVars, state, seen, pc, exited,
                                  endVars, curve>>

ChildExits(code) == /\ child = "running"
                    /\ code = "ok" => wrote = 2 * MaxStep /\ saving = ckpt
                    /\ child' = code
                    /\ UNCHANGED <<quiet, wrote, ckpt, saving, readerVars, state, seen, pc, exited,
                                   endVars, curve>>

-----------------------------------------------------------------------------
(* The reader thread. *)

\* _parse_line under the lock: a bar sets the step whatever it was before.
Parsed(n) == IF quiet THEN state
             ELSE IF n % 2 = 1 THEN [state EXCEPT !.step = (n + 1) \div 2]
                               ELSE [state EXCEPT !.loss = n \div 2]

ParseLine == /\ reader = "reading" /\ read < wrote
             /\ read' = read + 1
             /\ state' = Parsed(read + 1)
             /\ UNCHANGED <<childVars, reader, seen, pc, exited, endVars, curve>>

\* End of file: the child and everything that inherited its stdout are gone.  A
\* helper process of the child may hold the pipe open for as long as it likes.
ReaderEnds == /\ reader = "reading" /\ read = wrote /\ child # "running"
              /\ reader' = "ended"
              /\ UNCHANGED <<childVars, read, state, seen, pc, exited, endVars, curve>>

-----------------------------------------------------------------------------
(* _run_and_stream: the launch and the poll loop. *)

Raise(what) == pc' = "raised" /\ error' = what

\* Popen and the start of the reader thread.
Launch == /\ pc = "launch"
          /\ child' = "running" /\ pc' = "poll"
          /\ UNCHANGED <<quiet, wrote, ckpt, saving, readerVars, state, seen, exited, endVars, curve>>

LaunchFails == /\ pc = "launch"
               /\ Raise("OSError")
               /\ UNCHANGED <<childVars, readerVars, state, seen, exited, replayVars, artifact, curve>>

Poll == /\ pc = "poll"
        /\ exited' = (child # "running")
        /\ pc' = "merge"
        /\ UNCHANGED <<childVars, readerVars, state, seen, endVars, curve>>

\* _merge_trainer_state: a newer checkpoint moves the state forward, or fills in a
\* loss that nothing was parsed for.  A file that is being written is skipped.
Merged == IF ckpt >= state.step \/ state.loss = 0
          THEN [step |-> Larger(state.step, ckpt), loss |-> ckpt]
          ELSE state

Merge == /\ pc = "merge"
         /\ \/ ckpt > seen /\ seen' = ckpt /\ state' = Merged
            \/ UNCHANGED <<seen, state>>
         /\ pc' = "report"
         /\ UNCHANGED <<childVars, readerVars, exited, endVars, curve>>

\* The event is taken under the lock and passed to on_progress, which posts it; the
\* server upserts it by step.
Report == /\ pc = "report"
          /\ curve' = [curve EXCEPT ![state.step] = state.loss]
          /\ pc' = "answer"
          /\ UNCHANGED <<childVars, readerVars, state, seen, exited, endVars>>

\* on_progress returned True; then the exit that was polled before it counts.
AnswerTrue == /\ pc = "answer"
              /\ pc' = IF exited THEN "join" ELSE "poll"
              /\ UNCHANGED <<childVars, readerVars, state, seen, exited, endVars, curve>>

\* on_progress returned False: SIGTERM to the process group.
AnswerFalse == /\ pc = "answer"
               /\ pc' = "term"
               /\ UNCHANGED <<childVars, readerVars, state, seen, exited, endVars, curve>>

-----------------------------------------------------------------------------
(* Cancellation. *)

WaitedForChild == /\ pc \in {"term", "kill"} /\ child # "running"
                  /\ pc' = "reap"
                  /\ UNCHANGED <<childVars, readerVars, state, seen, exited, endVars, curve>>

\* Mutants: the child is not killed after fifteen seconds; it is not waited for.
TermTimesOut_Again == /\ pc = "term"
                      /\ pc' = "term"
                      /\ UNCHANGED <<childVars, readerVars, state, seen, exited, endVars, curve>>
TermTimesOut_NotAwaited == /\ pc = "term"
                           /\ pc' = "reap"
                           /\ UNCHANGED <<childVars, readerVars, state, seen, exited, endVars, curve>>

\* proc.wait(timeout=15) expired: SIGKILL.
TermTimesOut == /\ pc = "term" /\ child = "running"
                /\ pc' = "kill"
                /\ UNCHANGED <<childVars, readerVars, state, seen, exited, endVars, curve>>

\* proc.wait(timeout=10) expired too: TimeoutExpired leaves train.
KillTimesOut == /\ pc = "kill" /\ child = "running"
                /\ Raise("TimeoutExpired")
                /\ UNCHANGED <<childVars, readerVars, state, seen, exited, replayVars, artifact,
                               curve>>

\* reader.join(timeout=5), whatever it finds.
RaiseCancelled == /\ pc = "reap"
                  /\ Raise("CancelledError")
                  /\ UNCHANGED <<childVars, readerVars, state, seen, exited, replayVars, artifact,
                               curve>>

-----------------------------------------------------------------------------
(* After the child has exited. *)

\* Mutant: the exit code is not looked at.
Join_CodeUnread == /\ pc = "join"
                   /\ pc' = "history"
                   /\ UNCHANGED <<childVars, readerVars, state, seen, exited, todo, replayed, artifact, error,
                                  curve>>

\* reader.join(timeout=10) returns also while the thread still runs.
Join == /\ pc = "join"
        /\ IF child = "ok" THEN pc' = "history" /\ UNCHANGED error
                           ELSE Raise("RuntimeError")
        /\ UNCHANGED <<childVars, readerVars, state, seen, exited, todo, replayed, artifact, curve>>

\* entries[::stride] and the last entry, as steps (the log history of step n is entry
\* n - 1).
Stride(n) == Larger(1, n \div ReplayLimit)
Sampled(n) == {i + 1 : i \in {i \in 0 .. n - 1 : i % Stride(n) = 0 \/ i = n - 1}}

\* Mutant: the last entry is left to the stride.
ReadHistory_LastNotKept ==
    /\ pc = "history" /\ ckpt > 0
    /\ todo' = {i + 1 : i \in {i \in 0 .. ckpt - 1 : i % Stride(ckpt) = 0}}
    /\ pc' = "replay"
    /\ UNCHANGED <<childVars, readerVars, state, seen, exited, replayed, artifact,
                              error, curve>>

ReadHistory == /\ pc = "history" /\ ckpt > 0
               /\ todo' = Sampled(ckpt)
               /\ pc' = "replay"
               /\ UNCHANGED <<childVars, readerVars, state, seen, exited, replayed, artifact,
                              error, curve>>

\* No checkpoint, or a file that cannot be read: a warning.
NoHistory == /\ pc = "history"
             /\ pc' = "package"
             /\ UNCHANGED <<childVars, readerVars, state, seen, exited, endVars, curve>>

\* One point of the replay; the answer of on_progress is not looked at.
ReplayPoint == /\ pc = "replay"
               /\ \E s \in todo :
                     /\ \A r \in todo : s <= r
                     /\ todo' = todo \ {s}
                     /\ replayed' = replayed \cup {s}
                     /\ curve' = [curve EXCEPT ![s] = s]
               /\ UNCHANGED <<childVars, readerVars, state, seen, pc, exited, artifact, error>>

\* The final state is written without the lock.
ReplayEnds == /\ pc = "replay" /\ todo = {}
              /\ state' = [step |-> Larger(state.step, ckpt), loss |-> ckpt]
              /\ pc' = "package"
              /\ UNCHANGED <<childVars, readerVars, seen, exited, endVars, curve>>

\* _package_artifact: the newest checkpoint directory, or the whole output directory.
Package == /\ pc = "package"
           /\ artifact' = saving
           /\ pc' = "returned"
           /\ UNCHANGED <<childVars, readerVars, state, seen, exited, replayVars, error, curve>>

\* There is nothing in it; the disk is full.
PackageFails == /\ pc = "package"
                /\ Raise("RuntimeError") \/ Raise("OSError")
                /\ UNCHANGED <<childVars, readerVars, state, seen, exited, replayVars, artifact,
                               curve>>

-----------------------------------------------------------------------------
ChildStep == PrintLine \/ BeginCheckpoint \/ CheckpointSaved \/ ChildExits("ok") \/ ChildExits("bad")

ReaderStep == ParseLine \/ ReaderEnds

MainStep == \/ Launch \/ LaunchFails \/ Poll \/ Merge \/ Report \/ AnswerTrue \/ AnswerFalse
            \/ WaitedForChild \/ TermTimesOut \/ KillTimesOut \/ RaiseCancelled
            \/ Join \/ ReadHistory \/ NoHistory \/ ReplayPoint \/ ReplayEnds
            \/ Package \/ PackageFails

\* A step of the trainer once the dataset is there (Gr00tTrainer).
Next == ChildStep \/ ReaderStep \/ MainStep

Over == pc \in {"returned", "raised"}
-----------------------------------------------------------------------------
\* Every variable keeps its type.
TypeOK ==
    /\ quiet \in BOOLEAN
    /\ child \in {"none", "running", "ok", "bad"}
    /\ wrote \in 0 .. 2 * MaxStep
    /\ saving \in Steps /\ ckpt \in 0 .. saving
    /\ read \in 0 .. wrote
    /\ reader \in {"reading", "ended"}
    /\ state \in [step : 0 .. StepsTrained, loss : 0 .. StepsTrained]
    /\ seen \in 0 .. ckpt
    /\ pc \in {"launch", "poll", "merge", "report", "answer", "term", "kill", "reap", "join",
               "history", "replay", "package", "returned", "raised"}
    /\ exited \in BOOLEAN
    /\ todo \subseteq Steps /\ replayed \subseteq Steps
    /\ curve \in [Steps -> {NoPoint} \cup Steps]
    /\ artifact \in Steps
    /\ error \in {"none", "CancelledError", "TimeoutExpired", "RuntimeError", "OSError"}

\* The artifact is the newest checkpoint, complete, and the one whose log history was
\* replayed: also when the child dies in the middle of a checkpoint, and whatever was
\* read of the output directory while it ran (gr00t_n1.py:622-628 and 749-757).
ArtifactIsReplayed ==
    pc = "returned" => artifact = ckpt /\ (replayed # {} => artifact \in replayed)

\* After the replay the server's points at the sampled steps are the logged ones,
\* whatever live events said, and the last logged step is one of them
\* (gr00t_n1.py:658-678).
ReplayCorrectsCurve ==
    pc \in {"package", "returned"} /\ replayed # {} =>
        /\ \A s \in replayed : curve[s] = s
        /\ curve[ckpt] = ckpt

\* However long the log history is, the replay holds up the end of the job for a bounded
\* number of callbacks, at most twice the limit: the stride is rounded down, and the last
\* point comes on top (gr00t_n1.py:662-669).
ReplayBounded == Cardinality(todo \cup replayed) <= 2 * ReplayLimit

-----------------------------------------------------------------------------
(* The inductive invariant behind the safety properties. *)

\* What the main thread knows of the child, and of the reader.
ChildKnown ==
    /\ saving <= StepsTrained
    /\ child = "none" => pc \in {"launch", "raised"}
    /\ pc = "launch" => child = "none"
    /\ exited \/ pc \in {"reap", "join"} => child \in {"ok", "bad"}
    /\ pc \in {"history", "replay", "package", "returned"} => child = "ok"
    /\ child = "ok" => saving = ckpt

\* What has been replayed is on the curve; the newest checkpoint is replayed last.
ReplayKept ==
    /\ pc \notin {"replay", "package", "returned", "raised"} => todo = {} /\ replayed = {}
    /\ pc = "replay" => ckpt \in todo \cup replayed
    /\ pc \in {"replay", "package", "returned"} => \A s \in replayed : curve[s] = s
    /\ pc \in {"package", "returned"} /\ replayed # {} => ckpt \in replayed
    /\ pc = "returned" => artifact = saving

IInv == TypeOK /\ ChildKnown /\ ReplayKept

\* Nothing but the points of the newest checkpoint is replayed; it is the newest one for
\* good, since the child has ended.
ReplaySampled ==
    /\ child # "ok" => todo = {} /\ replayed = {}
    /\ todo \cup replayed \subseteq Sampled(ckpt)

-----------------------------------------------------------------------------
\* A cancelled run ends, and so does one whose child exits, whatever the child, its
\* helpers and the pipe do (gr00t_n1.py:592-622).
RunEnds == (pc = "term" \/ child \in {"ok", "bad"}) ~> Over
=============================================================================
