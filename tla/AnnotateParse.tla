--------------------------- MODULE AnnotateParse ---------------------------
(***************************************************************************)
(* _parse_episode and _pair_vqa (eval/annotate.py): what the annotation    *)
(* runner makes of the rows that lerobot-annotate staged for one episode,  *)
(* subtasks from plan.jsonl, question and answer pairs from vqa.jsonl.     *)
(*                                                                         *)
(* A row is what the parser looks at: its style or role and its timestamp, *)
(* NoStamp if it has none.  Its content is its position in the file.       *)
(* AnnotateRun opens one episode after the other.                          *)
(***************************************************************************)
EXTENDS Integers, FiniteSetsExt, Sequences, SequencesExt

CONSTANTS
    Stamps,      \* bound: timestamps, in seconds
    MaxPlan,     \* bound: rows of plan.jsonl
    MaxRows      \* bound: rows of plan.jsonl and vqa.jsonl together

NoStamp == -1
PlanRows == [style : {"subtask", "memory"}, stamp : Stamps \cup {NoStamp}]
VqaRoles == {"user", "assistant", "other"}

VARIABLES
    plan, vqa, lastStamp,    \* the files; the interjections are one timestamp
    order,       \* the subtask rows, sorted
    subtasks,    \* those turned into spans so far
    at,          \* vqa rows looked at so far
    question,    \* the open question, 0 for None
    pairs,
    pc

files == <<plan, vqa, lastStamp>>
vars == <<files, order, subtasks, at, question, pairs, pc>>

Init == /\ plan = <<>> /\ vqa = <<>> /\ lastStamp = NoStamp
        /\ order = <<>> /\ subtasks = <<>> /\ at = 0 /\ question = 0 /\ pairs = <<>>
        /\ pc = "idle"

\* _read_jsonl of the three files; a line that is not JSON is passed over.
OpenEpisode == /\ pc = "idle"
               /\ plan' \in BoundedSeq(PlanRows, MaxPlan)
               /\ vqa' \in BoundedSeq(VqaRoles, MaxRows - Len(plan'))
               /\ lastStamp' \in Stamps \cup {NoStamp}
               /\ pc' = "read"
               /\ UNCHANGED <<order, subtasks, at, question, pairs>>

\* _parse_episode returned: its variables are gone.
CloseEpisode == /\ pc \in {"entry", "none"}
                /\ plan' = <<>> /\ vqa' = <<>> /\ lastStamp' = NoStamp
                /\ order' = <<>> /\ subtasks' = <<>> /\ at' = 0 /\ question' = 0 /\ pairs' = <<>>
                /\ pc' = "idle"

\* float(row.get("timestamp") or 0.0)
Start(row) == IF row.stamp = NoStamp THEN 0 ELSE row.stamp

\* max_ts, over the timestamps that are there
MaxStamp == Max({0, lastStamp} \cup {plan[k].stamp : k \in DOMAIN plan})

Subtasks == {k \in DOMAIN plan : plan[k].style = "subtask"}

\* sorted() is stable.
Before(a, b) == \/ Start(plan[a]) < Start(plan[b])
                \/ Start(plan[a]) = Start(plan[b]) /\ a < b

\* Mutant: the rows are taken in the order of the file.
ReadRows_FileOrder == /\ pc = "read"
                      /\ order' \in BoundedSeq(Subtasks, Len(plan))
                      /\ {order'[a] : a \in DOMAIN order'} = Subtasks
                      /\ \A a, b \in DOMAIN order' : a < b => order'[a] < order'[b]
                      /\ pc' = "subtasks"
                      /\ UNCHANGED <<files, subtasks, at, question, pairs>>

\* An episode without any row has no entry; interjections without a timestamp are rows.
ReadRows == /\ pc = "read"
            /\ \/ /\ plan = <<>> /\ vqa = <<>> /\ lastStamp = NoStamp
                  /\ pc' = "none" /\ UNCHANGED order
               \/ /\ pc' = "subtasks"
                  /\ order' \in BoundedSeq(Subtasks, Len(plan))
                  /\ {order'[a] : a \in DOMAIN order'} = Subtasks
                  /\ \A a, b \in DOMAIN order' : a < b => Before(order'[a], order'[b])
            /\ UNCHANGED <<files, subtasks, at, question, pairs>>

\* A span ends where the next one starts; a next timestamp that is missing or 0 is
\* replaced by the start of the span itself.
Subtask == /\ pc = "subtasks" /\ Len(subtasks) < Len(order)
           /\ LET i == Len(subtasks) + 1
                  start == Start(plan[order[i]])
                  next == plan[order[i + 1]].stamp
              IN  subtasks' = Append(subtasks,
                    [row |-> order[i], start |-> start,
                     end |-> IF i = Len(order) THEN Max({MaxStamp, start})
                             ELSE IF next \in {NoStamp, 0} THEN start ELSE next])
           /\ UNCHANGED <<files, order, at, question, pairs, pc>>

SubtasksDone == /\ pc = "subtasks" /\ Len(subtasks) = Len(order)
                /\ pc' = "vqa"
                /\ UNCHANGED <<files, order, subtasks, at, question, pairs>>

VqaUser == /\ pc = "vqa" /\ at < Len(vqa) /\ vqa[at + 1] = "user"
           /\ question' = at + 1
           /\ at' = at + 1
           /\ UNCHANGED <<files, order, subtasks, pairs, pc>>

\* Mutant: an answer leaves its question open.
VqaAssistant_QuestionKept ==
    /\ pc = "vqa" /\ at < Len(vqa) /\ vqa[at + 1] = "assistant" /\ question # 0
    /\ pairs' = Append(pairs, <<question, at + 1>>)
    /\ at' = at + 1
    /\ UNCHANGED <<files, order, subtasks, question, pc>>

VqaAssistant ==
    /\ pc = "vqa" /\ at < Len(vqa) /\ vqa[at + 1] = "assistant" /\ question # 0
    /\ pairs' = Append(pairs, <<question, at + 1>>)
    /\ question' = 0
    /\ at' = at + 1
    /\ UNCHANGED <<files, order, subtasks, pc>>

\* A row of another style, or an answer to nothing.
VqaSkip == /\ pc = "vqa" /\ at < Len(vqa)
           /\ vqa[at + 1] = "other" \/ (vqa[at + 1] = "assistant" /\ question = 0)
           /\ at' = at + 1
           /\ UNCHANGED <<files, order, subtasks, question, pairs, pc>>

VqaDone == /\ pc = "vqa" /\ at = Len(vqa)
           /\ pc' = "entry"
           /\ UNCHANGED <<files, order, subtasks, at, question, pairs>>

ParseStep == \/ ReadRows \/ Subtask \/ SubtasksDone
             \/ VqaUser \/ VqaAssistant \/ VqaSkip \/ VqaDone

Next == OpenEpisode \/ ParseStep \/ CloseEpisode

Spec == Init /\ [][Next]_vars

-----------------------------------------------------------------------------
\* Every variable keeps its type.
TypeOK ==
    /\ plan \in Seq(PlanRows) /\ vqa \in Seq(VqaRoles)
    /\ lastStamp \in Stamps \cup {NoStamp}
    /\ order \in Seq(Subtasks)
    /\ subtasks \in Seq([row : Subtasks, start : Nat, end : Nat])
    /\ at \in 0 .. Len(vqa) /\ question \in 0 .. at
    /\ pairs \in Seq((1 .. at) \X (1 .. at))
    /\ pc \in {"idle", "read", "subtasks", "vqa", "entry", "none"}

\* The spans of an episode cover the time from the first subtask to the last stamp
\* without gap or overlap, also when rows lack a timestamp, and every subtask row has
\* one: "each span's endS is the next subtask's start" (annotate.py:17-20).
SpansTile ==
    pc \in {"vqa", "entry"} =>
        /\ {subtasks[k].row : k \in DOMAIN subtasks} = Subtasks
        /\ \A j, k \in DOMAIN subtasks : j # k => subtasks[j].row # subtasks[k].row
        /\ \A k \in DOMAIN subtasks :
              /\ subtasks[k].start <= subtasks[k].end
              /\ subtasks[k].end = IF k < Len(subtasks) THEN subtasks[k + 1].start ELSE MaxStamp

\* The pairs are those of a question with the first answer after it, no other question
\* in between (annotate.py:349-363), in the order of the file.
Answered(q, a) == /\ q < a /\ vqa[q] = "user" /\ vqa[a] = "assistant"
                  /\ \A k \in q + 1 .. a - 1 : vqa[k] = "other"

PairsAreAnswers ==
    pc = "entry" =>
        /\ {pairs[k] : k \in DOMAIN pairs} =
               {p \in (DOMAIN vqa) \X (DOMAIN vqa) : Answered(p[1], p[2])}
        /\ \A j, k \in DOMAIN pairs : j < k => pairs[j][1] < pairs[k][1]

-----------------------------------------------------------------------------
(* The inductive invariant behind them. *)

\* Each subtask row has its place, and no two the same.
RowsInOrder ==
    pc \in {"subtasks", "vqa", "entry"} =>
        /\ {order[a] : a \in DOMAIN order} = Subtasks
        /\ \A a, b \in DOMAIN order : a < b => Before(order[a], order[b])

\* A span ends where the one after it will start.
SpansSoFar ==
    pc \in {"subtasks", "vqa", "entry"} =>
        /\ IF pc = "subtasks" THEN Len(subtasks) <= Len(order) ELSE Len(subtasks) = Len(order)
        /\ \A k \in DOMAIN subtasks :
              /\ subtasks[k].row = order[k] /\ subtasks[k].start = Start(plan[order[k]])
              /\ subtasks[k].end = IF k < Len(order) THEN Start(plan[order[k + 1]]) ELSE MaxStamp

\* Of the rows looked at, the answered questions are paired; the open one is the last of them.
PairsSoFar ==
    pc \in {"vqa", "entry"} =>
        /\ IF question = 0
              THEN \A q \in 1 .. at : vqa[q] = "user" => \E a \in q + 1 .. at : vqa[a] # "other"
              ELSE vqa[question] = "user" /\ \A k \in question + 1 .. at : vqa[k] = "other"
        /\ {pairs[k] : k \in DOMAIN pairs} = {p \in (1 .. at) \X (1 .. at) : Answered(p[1], p[2])}
        /\ \A j, k \in DOMAIN pairs : j < k => pairs[j][1] < pairs[k][1]
        /\ pc = "entry" => at = Len(vqa)

\* Nothing is parsed before the rows are read.
NothingParsed ==
    /\ pc \in {"idle", "read", "none"} => order = <<>> /\ subtasks = <<>>
    /\ pc \in {"idle", "read", "subtasks", "none"} => at = 0 /\ question = 0 /\ pairs = <<>>

ParseInv == TypeOK /\ RowsInOrder /\ SpansSoFar /\ PairsSoFar /\ NothingParsed
=============================================================================
