---------------------------- MODULE AnnotateRun ----------------------------
(***************************************************************************)
(* AnnotateRunner.train (eval/annotate.py): the dataset is downloaded; the *)
(* lerobot-annotate CLI runs as a child whose output is drained without    *)
(* blocking by the loop that polls it, counts the episodes it has staged   *)
(* and calls on_progress; then a JSON report is taken, or the staged files *)
(* are parsed episode by episode (AnnotateParse).                          *)
(*                                                                         *)
(* The CLI is external: it stages episodes, whatever it was asked for,     *)
(* prints lines into a pipe and waits when the pipe is full, and may leave *)
(* a report.  A report is an annotations.json that holds a list of         *)
(* annotations, named here by their episodes.                              *)
(***************************************************************************)
EXTENDS Integers, FiniteSets, Sequences

CONSTANTS
    Episodes,                  \* bound: the episodes of the dataset
    MaxLines,                  \* bound: lines the CLI prints
    PipeSize,                  \* lines the pipe holds
    Stamps, MaxPlan, MaxRows   \* bounds of AnnotateParse

ASSUME AnnotateAssumption ==
    /\ Episodes \subseteq Nat /\ IsFiniteSet(Episodes)
    /\ MaxLines \in Nat /\ PipeSize \in Nat \ {0}
    /\ Stamps \subseteq Nat /\ MaxPlan \in Nat /\ MaxRows \in Nat

VARIABLES
    asked,      \* the episodes of the hyperparameters, {} for all: fixed
    total,      \* how many they are, one named twice counted twice: fixed
    report,     \* the annotations.json files, in the staging dir and in the dataset: "none",
                \* "cli", or "shipped" with the dataset
    child,      \* "none", "running", or its exit: "ok", "bad"
    staged,     \* the episodes with a directory in the staging dir
    wrote,      \* lines printed so far
    pipe,       \* those of them still in the pipe
    pc, exited, \* the main thread, and ret is not None
    event,      \* the last ProgressEvent, as [step, total]
    source,     \* where the annotations come from: "staging", or the kind of a report
    todo,       \* staged episodes still to be parsed
    found,      \* the episodes with annotations
    error       \* what was raised, "none" before

VARIABLES plan, vqa, lastStamp, order, subtasks, at, question, pairs, parsePc

P == INSTANCE AnnotateParse WITH pc <- parsePc

childVars == <<report, child, staged, wrote>>
hyper     == <<asked, total>>
endVars   == <<source, todo, found>>
parseVars == <<plan, vqa, lastStamp, order, subtasks, at, question, pairs, parsePc>>
runVars   == <<pipe, exited, event>>
vars == <<hyper, childVars, runVars, pc, endVars, error, parseVars>>

Lesser(a, b) == IF a < b THEN a ELSE b
Larger(a, b) == IF a > b THEN a ELSE b
done == Cardinality(staged)

\* total=len(episodes) or 1
Init == /\ asked \in SUBSET Episodes
        /\ total \in IF asked = {} THEN {1} ELSE Cardinality(asked) .. Cardinality(asked) + 1
        /\ report \in [staging : {"none"}, dataset : {"none", "shipped"}]
        /\ child = "none" /\ staged = {} /\ wrote = 0 /\ pipe = 0
        /\ pc = "cli" /\ exited = FALSE
        /\ event = [step |-> 0, total |-> 0]
        /\ source = "none" /\ todo = {} /\ found = {} /\ error = "none"
        /\ P!Init

Goto(loc) == pc' = loc /\ UNCHANGED error
Raise(what) == pc' = "raised" /\ error' = what

-----------------------------------------------------------------------------
(* Before the child. *)

\* _resolve_cli
ResolveCli == /\ pc = "cli"
              /\ Goto("download") \/ Raise("RuntimeError")
              /\ UNCHANGED <<hyper, childVars, runVars, endVars, parseVars>>

Download == /\ pc = "download"
            /\ Goto("locate") \/ Raise("DownloadError")
            /\ UNCHANGED <<hyper, childVars, runVars, endVars, parseVars>>

\* _locate_dataset_root: SortedRoot of DatasetRoot.
Locate == /\ pc = "locate"
          /\ Goto("launch") \/ Raise("FileNotFoundError")
          /\ UNCHANGED <<hyper, childVars, runVars, endVars, parseVars>>

\* The command, its environment and Popen.
Launch == /\ pc = "launch"
          /\ \/ child' = "running" /\ Goto("poll")
             \/ UNCHANGED child /\ Raise("OSError")
          /\ UNCHANGED <<hyper, report, staged, wrote, runVars, endVars, parseVars>>

-----------------------------------------------------------------------------
(* The child process. *)

StageEpisode == /\ child = "running"
                /\ \E e \in Episodes \ staged : staged' = staged \cup {e}
                /\ UNCHANGED <<hyper, report, child, wrote, runVars, pc, endVars, error, parseVars>>

PrintLine == /\ child = "running" /\ wrote < MaxLines /\ pipe < PipeSize
             /\ wrote' = wrote + 1 /\ pipe' = pipe + 1
             /\ UNCHANGED <<hyper, report, child, staged, exited, event, pc, endVars, error, parseVars>>

ChildExits(code) == /\ child = "running"
                    /\ code = "ok" => wrote = MaxLines
                    /\ child' = code
                    /\ report' \in {report, [report EXCEPT !.staging = "cli"],
                                            [report EXCEPT !.dataset = "cli"]}
                    /\ UNCHANGED <<hyper, staged, wrote, runVars, pc, endVars, error, parseVars>>

-----------------------------------------------------------------------------
(* _run_and_poll *)

Poll == /\ pc = "poll"
        /\ exited' = (child # "running")
        /\ Goto("drain")
        /\ UNCHANGED <<hyper, childVars, pipe, event, endVars, parseVars>>

\* Mutant: the loop leaves the output in the pipe.
Drain_Never == /\ pc = "drain"
               /\ Goto("count")
               /\ UNCHANGED <<hyper, childVars, runVars, endVars, parseVars>>

\* _drain_output: whatever is in the pipe, and no waiting for more.
Drain == /\ pc = "drain"
         /\ pipe' = 0
         /\ Goto("count")
         /\ UNCHANGED <<hyper, childVars, exited, event, endVars, parseVars>>

\* _count_staged_episodes and the ProgressEvent made of it.
Count == /\ pc = "count"
         /\ event' = [step |-> Lesser(done, total), total |-> Larger(done, total)]
         /\ Goto("answer")
         /\ UNCHANGED <<hyper, childVars, pipe, exited, endVars, parseVars>>

\* Mutant: the exit is polled again after the count.
AnswerTrue_PollsAgain == /\ pc = "answer"
                         /\ Goto(IF child # "running" THEN "ended" ELSE "poll")
                         /\ UNCHANGED <<hyper, childVars, runVars, endVars, parseVars>>

AnswerTrue == /\ pc = "answer"
              /\ Goto(IF exited THEN "ended" ELSE "poll")
              /\ UNCHANGED <<hyper, childVars, runVars, endVars, parseVars>>

\* SIGTERM to the process group.
AnswerFalse == /\ pc = "answer"
               /\ Goto("term")
               /\ UNCHANGED <<hyper, childVars, runVars, endVars, parseVars>>

\* Mutant: the child is not waited for.
WaitedForChild_NotAwaited == /\ pc \in {"term", "kill"}
                             /\ Raise("CancelledError")
                             /\ UNCHANGED <<hyper, childVars, runVars, endVars, parseVars>>

WaitedForChild == /\ pc \in {"term", "kill"} /\ child # "running"
                  /\ Raise("CancelledError")
                  /\ UNCHANGED <<hyper, childVars, runVars, endVars, parseVars>>

TermTimesOut == /\ pc = "term" /\ child = "running"
                /\ Goto("kill")
                /\ UNCHANGED <<hyper, childVars, runVars, endVars, parseVars>>

KillTimesOut == /\ pc = "kill" /\ child = "running"
                /\ Raise("TimeoutExpired")
                /\ UNCHANGED <<hyper, childVars, runVars, endVars, parseVars>>

\* The last drain (whatever a helper of the CLI printed meanwhile), and the return code.
Ended == /\ pc = "ended"
         /\ pipe' = 0
         /\ IF child = "ok" THEN Goto("source") ELSE Raise("RuntimeError")
         /\ UNCHANGED <<hyper, childVars, exited, event, endVars, parseVars>>

-----------------------------------------------------------------------------
(* _parse_annotations *)

\* The report of the staging dir, else the one of the dataset, is used verbatim.
TakeReport ==
    /\ pc = "source"
    /\ \E place \in {"staging", "dataset"} :
          /\ report[place] # "none"
          /\ place = "dataset" => report.staging = "none"
          /\ source' = report[place]
    /\ found' \in SUBSET Episodes
    /\ Goto("filter")
    /\ UNCHANGED <<hyper, childVars, runVars, todo, parseVars>>

TakeStaging ==
    /\ pc = "source" /\ report = [staging |-> "none", dataset |-> "none"]
    /\ source' = "staging"
    /\ todo' = staged
    /\ Goto("episodes")
    /\ UNCHANGED <<hyper, childVars, runVars, found, parseVars>>

\* A staging dir that does not exist, a report that is not JSON.
SourceFails ==
    /\ pc = "source"
    /\ \/ staged = {} /\ report = [staging |-> "none", dataset |-> "none"] /\ Raise("RuntimeError")
       \/ report # [staging |-> "none", dataset |-> "none"] /\ Raise("JSONDecodeError")
    /\ UNCHANGED <<hyper, childVars, runVars, endVars, parseVars>>

NextEpisode == /\ pc = "episodes" /\ todo # {}
               /\ P!OpenEpisode
               /\ UNCHANGED <<hyper, childVars, runVars, pc, endVars, error>>

\* A timestamp of a subtask row that is no number.
SortFails == /\ pc = "episodes" /\ parsePc = "read" /\ P!Subtasks # {}
             /\ Raise("ValueError")
             /\ UNCHANGED <<hyper, childVars, runVars, endVars, parseVars>>

ParseEpisode == /\ pc = "episodes"
                /\ P!ParseStep
                /\ UNCHANGED <<hyper, childVars, runVars, pc, endVars, error>>

\* The directories are taken in order.
EpisodeDone == /\ pc = "episodes"
               /\ P!CloseEpisode
               /\ \E e \in todo :
                     /\ \A f \in todo : e <= f
                     /\ found' = IF parsePc = "entry" THEN found \cup {e} ELSE found
                     /\ todo' = todo \ {e}
               /\ UNCHANGED <<hyper, childVars, runVars, pc, source, error>>

AllEpisodes == /\ pc = "episodes" /\ todo = {} /\ parsePc = "idle"
               /\ Goto("filter")
               /\ UNCHANGED <<hyper, childVars, runVars, endVars, parseVars>>

\* Only the wanted episodes; the artifact is written.
Filter == /\ pc = "filter"
          /\ found' = IF asked = {} THEN found ELSE found \cap asked
          /\ Goto("returned")
          /\ UNCHANGED <<hyper, childVars, runVars, source, todo, parseVars>>

\* The rows of a report are used as they are: one may lack its episodeIndex.
FilterFails == /\ pc = "filter" /\ source # "staging" /\ asked # {}
               /\ Raise("KeyError")
               /\ UNCHANGED <<hyper, childVars, runVars, endVars, parseVars>>

-----------------------------------------------------------------------------
ChildGoesOn == PrintLine \/ ChildExits("ok")

MainStep == \/ ResolveCli \/ Download \/ Locate \/ Launch
            \/ Poll \/ Drain \/ Count \/ AnswerTrue \/ AnswerFalse
            \/ WaitedForChild \/ TermTimesOut \/ KillTimesOut \/ Ended
            \/ TakeReport \/ TakeStaging \/ SourceFails
            \/ NextEpisode \/ SortFails \/ ParseEpisode \/ EpisodeDone \/ AllEpisodes
            \/ Filter \/ FilterFails

Next == StageEpisode \/ ChildGoesOn \/ ChildExits("bad") \/ MainStep

\* The CLI goes on whenever the pipe lets it.
Spec == Init /\ [][Next]_vars /\ WF_vars(MainStep) /\ WF_vars(ChildGoesOn)

Over == pc \in {"returned", "raised"}
-----------------------------------------------------------------------------
\* Every variable keeps its type.
TypeOK ==
    /\ asked \subseteq Episodes /\ total \in Nat \ {0}
    /\ report \in [staging : {"none", "cli"}, dataset : {"none", "shipped", "cli"}]
    /\ child \in {"none", "running", "ok", "bad"}
    /\ staged \subseteq Episodes
    /\ wrote \in 0 .. MaxLines /\ pipe \in 0 .. Lesser(wrote, PipeSize)
    /\ pc \in {"cli", "download", "locate", "launch", "poll", "drain", "count", "answer",
               "term", "kill", "ended", "source", "episodes", "filter", "returned", "raised"}
    /\ exited \in BOOLEAN
    /\ event \in [step : 0 .. total, total : Nat]
    /\ source \in {"none", "staging", "cli", "shipped"}
    /\ todo \subseteq staged /\ found \subseteq Episodes
    /\ error \in {"none", "CancelledError", "TimeoutExpired", "RuntimeError", "JSONDecodeError",
                  "ValueError", "KeyError", "DownloadError", "FileNotFoundError", "OSError"}
    /\ P!TypeOK

\* The last event of a run that succeeds is about every episode the CLI staged, although
\* the CLI may stage one and exit while on_progress is being called
\* (annotate.py:217-232).  Its step, though, is capped by the total of the hyperparameters,
\* which is 1 for a run over all episodes (annotate.py:97).
EventIsCurrent == event = [step |-> Lesser(done, total), total |-> Larger(done, total)]

LastEventCountsAll ==
    pc \in {"ended", "source", "episodes", "filter", "returned"} => EventIsCurrent

\* The spans and the pairs of each episode (AnnotateParse).
SpansTile == P!SpansTile
PairsAreAnswers == P!PairsAreAnswers

\* A CLI that prints more than the pipe holds is never stuck on it: the run ends
\* (annotate.py:211-218).
RunEnds == <>Over

\* What the job runner is promised, by this runner as by the trainers
\* (annotate.py:228-250).
Contract == INSTANCE TrainerContract WITH
    told <- pc \in {"term", "kill"} \/ error \in {"CancelledError", "TimeoutExpired"},
    busy <- child = "running",
    outcome <- IF pc = "returned" THEN "result"
               ELSE IF pc # "raised" THEN "none"
               ELSE IF error = "CancelledError" THEN "cancelled" ELSE "failed"

IsTrainer == Contract!Spec
IsTrainerSafely == Contract!SafeSpec

-----------------------------------------------------------------------------
(* The inductive invariants behind the safety properties. *)

\* What the main thread knows of the child, which stages nothing once it has exited.
ChildKnown ==
    /\ staged \subseteq Episodes
    /\ child \in {"none", "running", "ok", "bad"}
    /\ pc \in {"cli", "download", "locate", "launch"} => child = "none" /\ ~exited
    /\ child = "none" => pc \in {"cli", "download", "locate", "launch", "raised"}
    /\ exited => child \in {"ok", "bad"}
    /\ pc = "answer" /\ exited => EventIsCurrent
    /\ pc \in {"ended", "source", "episodes", "filter", "returned"} =>
          child \in {"ok", "bad"} /\ EventIsCurrent
    /\ pc # "raised" => error = "none"
    /\ pc = "raised" /\ child = "running" => error = "TimeoutExpired"

\* The episode that is being parsed.
ParseInv == P!ParseInv
=============================================================================
