--------------------------- MODULE AnnotateProofs ---------------------------
(***************************************************************************)
(* Proofs about the annotation runner (module AnnotateRun) for any dataset *)
(* and any bounds: what its last event says, what the spans and the pairs  *)
(* of an episode are, and the contract with the job runner.                *)
(***************************************************************************)
EXTENDS AnnotateRun, WellFoundedInduction, TLAPS

\* Before the run there is nothing to know.
LEMMA NothingHappenedYet == Init => ChildKnown
  BY DEF Init, ChildKnown

\* The child works on; once it has exited, nothing more is staged.
LEMMA ChildKeeps ==
  ASSUME ChildKnown, StageEpisode \/ PrintLine \/ ChildExits("ok") \/ ChildExits("bad")
  PROVE  ChildKnown'
<1>1. /\ child = "running" /\ child' \in {"running", "ok", "bad"}
      /\ staged' \subseteq Episodes
      /\ UNCHANGED <<exited, pc, error>>
  BY DEF StageEpisode, PrintLine, ChildExits, ChildKnown, runVars
<1> QED
  BY <1>1 DEF ChildKnown

\* Before the child, and the poll loop (annotate.py:94-104 and 190-250).
LEMMA PollKeeps ==
  ASSUME ChildKnown,
         \/ ResolveCli \/ Download \/ Locate \/ Launch
         \/ Poll \/ Drain \/ Count \/ AnswerTrue \/ AnswerFalse
         \/ WaitedForChild \/ TermTimesOut \/ KillTimesOut \/ Ended
  PROVE  ChildKnown'
<1> USE DEF Goto, Raise
<1>1. /\ UNCHANGED <<total, staged>>
      /\ pc \notin {"source", "episodes", "filter", "returned", "raised"}
      /\ pc' \notin {"episodes", "filter", "returned"}
  BY DEF ResolveCli, Download, Locate, Launch, Poll, Drain, Count, AnswerTrue, AnswerFalse,
     WaitedForChild, TermTimesOut, KillTimesOut, Ended, hyper, childVars
<1>2. CASE ResolveCli \/ Download \/ Locate \/ Launch
  BY <1>1, <1>2 DEF ResolveCli, Download, Locate, Launch, ChildKnown, childVars, runVars
<1>3. CASE Poll
  <2>1. exited' => child \in {"ok", "bad"}
    BY <1>3 DEF Poll, ChildKnown
  <2> QED
    BY <1>1, <1>3, <2>1 DEF Poll, ChildKnown, childVars
<1>4. CASE Drain \/ AnswerFalse \/ WaitedForChild \/ TermTimesOut \/ KillTimesOut
  BY <1>1, <1>4 DEF Drain, AnswerFalse, WaitedForChild, TermTimesOut, KillTimesOut,
     ChildKnown, childVars, runVars
<1>5. CASE Count
  <2>1. EventIsCurrent'
    BY <1>5 DEF Count, EventIsCurrent, done, Lesser, Larger, hyper, childVars
  <2> QED
    BY <1>1, <1>5, <2>1 DEF Count, ChildKnown, childVars
<1>6. CASE AnswerTrue \/ Ended
  <2>1. EventIsCurrent' = EventIsCurrent
    BY <1>6 DEF AnswerTrue, Ended, EventIsCurrent, done, Lesser, Larger, hyper, childVars, runVars
  <2> QED
    BY <1>1, <1>6, <2>1 DEF AnswerTrue, Ended, ChildKnown, childVars, runVars
<1> QED
  BY <1>2, <1>3, <1>4, <1>5, <1>6

\* The annotations (annotate.py:101-111 and 281-330).
LEMMA AnnotationsKeep ==
  ASSUME ChildKnown,
         \/ TakeReport \/ TakeStaging \/ SourceFails
         \/ NextEpisode \/ SortFails \/ ParseEpisode \/ EpisodeDone \/ AllEpisodes
         \/ Filter \/ FilterFails
  PROVE  ChildKnown'
<1>1. /\ UNCHANGED <<total, child, staged, exited, event>>
      /\ pc \in {"source", "episodes", "filter"}
      /\ pc' \in {"episodes", "filter", "returned", "raised"}
      /\ pc' # "raised" => error' = error
  BY DEF TakeReport, TakeStaging, SourceFails, NextEpisode, SortFails, ParseEpisode,
     EpisodeDone, AllEpisodes, Filter, FilterFails, Goto, Raise, hyper, childVars, runVars
<1> QED
  BY <1>1 DEF ChildKnown, EventIsCurrent, done, Lesser, Larger

\* The invariant holds in every state of a run.
THEOREM ChildInvariant == Spec => []ChildKnown
<1>1. ChildKnown /\ UNCHANGED vars => ChildKnown'
  BY DEF ChildKnown, EventIsCurrent, done, Lesser, Larger, vars, hyper, childVars, runVars
<1>2. ChildKnown /\ Next => ChildKnown'
  BY ChildKeeps, PollKeeps, AnnotationsKeep DEF Next, ChildGoesOn, MainStep
<1> QED
  BY <1>1, <1>2, NothingHappenedYet, PTL DEF Spec

\* The last event of a run that succeeds counts every staged episode, also one staged
\* while on_progress was being called (annotate.py:217-232).
THEOREM LastEventCountsAllHolds == Spec => []LastEventCountsAll
<1>1. ChildKnown => LastEventCountsAll
  BY DEF ChildKnown, LastEventCountsAll
<1> QED
  BY <1>1, ChildInvariant, PTL

-----------------------------------------------------------------------------
(* The contract of a trainer. *)

\* A step of the main thread, seen from the job runner.
LEMMA MainKeepsContract ==
  ASSUME ChildKnown, MainStep
  PROVE  [Contract!Next]_(Contract!vars)
<1> USE DEF Goto, Raise
<1>1. CASE Launch
  BY <1>1 DEF Launch, ChildKnown, Contract!Next, Contract!Engage, Contract!Failed
<1>2. CASE AnswerFalse
  BY <1>2 DEF AnswerFalse, ChildKnown, childVars, Contract!Next, Contract!ToldToStop
<1>3. CASE WaitedForChild
  BY <1>3 DEF WaitedForChild, childVars, Contract!Next, Contract!Cancelled
<1>4. CASE KillTimesOut
  BY <1>4 DEF KillTimesOut, childVars, Contract!Next, Contract!Failed
<1>5. CASE \/ ResolveCli \/ Download \/ Locate \/ Ended
           \/ SourceFails \/ SortFails \/ FilterFails
  BY <1>5 DEF ResolveCli, Download, Locate, Ended, SourceFails, SortFails, FilterFails,
     ChildKnown, childVars,
     Contract!Next, Contract!Failed, Contract!vars
<1>6. CASE Filter
  BY <1>6 DEF Filter, ChildKnown, childVars, Contract!Next, Contract!Result
<1>7. CASE \/ Poll \/ Drain \/ Count \/ AnswerTrue \/ TermTimesOut \/ TakeReport \/ TakeStaging
           \/ NextEpisode \/ ParseEpisode \/ EpisodeDone \/ AllEpisodes
  <2>1. UNCHANGED <<child, error>>
    BY <1>7 DEF Poll, Drain, Count, AnswerTrue, TermTimesOut, TakeReport, TakeStaging,
       NextEpisode, ParseEpisode, EpisodeDone, AllEpisodes, childVars
  <2>2. /\ pc \notin {"returned", "raised"} /\ pc' \notin {"returned", "raised"}
        /\ pc \in {"term", "kill"} <=> pc' \in {"term", "kill"}
    BY <1>7 DEF Poll, Drain, Count, AnswerTrue, TermTimesOut, TakeReport, TakeStaging,
       NextEpisode, ParseEpisode, EpisodeDone, AllEpisodes
  <2> QED
    BY <2>1, <2>2 DEF Contract!vars
<1> QED
  BY <1>1, <1>2, <1>3, <1>4, <1>5, <1>6, <1>7 DEF MainStep

\* However the CLI and the server interleave, the runner keeps what the job runner relies
\* on (annotate.py:228-250, base.py:71-79 and 105-117).
THEOREM AnnotateKeepsContract == Spec => IsTrainerSafely
<1>1. Init => Contract!Init
  BY DEF Init, Contract!Init
<1>2. ChildKnown /\ [Next]_vars => [Contract!Next]_(Contract!vars)
  <2> SUFFICES ASSUME ChildKnown, [Next]_vars PROVE [Contract!Next]_(Contract!vars)
    OBVIOUS
  <2>1. CASE MainStep
    BY <2>1, MainKeepsContract
  <2>2. CASE StageEpisode \/ PrintLine \/ ChildExits("ok") \/ ChildExits("bad")
    BY <2>2 DEF StageEpisode, PrintLine, ChildExits, Contract!Next, Contract!Release,
       Contract!vars
  <2>3. CASE UNCHANGED vars
    BY <2>3 DEF vars, childVars, Contract!vars
  <2> QED
    BY <2>1, <2>2, <2>3 DEF Next, ChildGoesOn
<1> QED
  BY <1>1, <1>2, ChildInvariant, PTL DEF Spec, IsTrainerSafely, Contract!SafeSpec

\* So a run that returns, or is cancelled, has left no CLI at work, and only a failure can
\* leave one, which was told to stop (annotate.py:228-250).
THEOREM AnnotateEndIsClean == Spec => []Contract!EndIsClean
<1>1. Contract!Init => Contract!EndIsClean
  BY DEF Contract!Init, Contract!EndIsClean
<1>2. Contract!EndIsClean /\ [Contract!Next]_(Contract!vars) => Contract!EndIsClean'
  BY DEF Contract!EndIsClean, Contract!Next, Contract!Engage, Contract!Release,
     Contract!ToldToStop, Contract!Result, Contract!Cancelled, Contract!Failed, Contract!vars
<1> QED
  BY <1>1, <1>2, AnnotateKeepsContract, PTL DEF IsTrainerSafely, Contract!SafeSpec

-----------------------------------------------------------------------------
(* The spans and the pairs of an episode (module AnnotateParse). *)

\* A set of naturals that is not empty has a least element.
LEMMA LeastNat ==
  ASSUME NEW S \in SUBSET Nat, S # {}
  PROVE  \E m \in S : \A n \in S : m <= n
<1> DEFINE R == OpToRel(<, Nat)
<1>1. IsWellFoundedOn(R, Nat)
  BY NatLessThanWellFounded
<1>2. \A x, y \in Nat : x < y => <<x, y>> \in R
  BY DEF OpToRel
<1> HIDE DEF R
<1>3. PICK m \in S : \A y \in S : ~ (<<y, m>> \in R)
  BY <1>1, WFMin
<1> SUFFICES ASSUME NEW n \in S PROVE m <= n
  OBVIOUS
<1>4. ~ (n < m)
  BY <1>2, <1>3
<1> QED
  BY <1>4

\* Finitely many numbers have a greatest one.
LEMMA GreatestOfMany ==
  ASSUME NEW n \in Nat, NEW f \in [1 .. n -> Int], NEW z \in Int
  PROVE  \E m \in {z} \cup {f[k] : k \in 1 .. n} : \A x \in {z} \cup {f[k] : k \in 1 .. n} : m >= x
<1> DEFINE S(j) == {z} \cup {f[k] : k \in 1 .. j}
           bad == {j \in 0 .. n : ~ \E m \in S(j) : \A x \in S(j) : m >= x}
<1>1. bad = {}
  <2> SUFFICES ASSUME bad # {} PROVE FALSE
    OBVIOUS
  <2>1. bad \in SUBSET Nat
    OBVIOUS
  <2>2. PICK j \in bad : \A i \in bad : j <= i
    <3> HIDE DEF bad
    <3> QED
      BY <2>1, LeastNat
  <2>3. j \in 0 .. n /\ ~ \E m \in S(j) : \A x \in S(j) : m >= x
    OBVIOUS
  <2>4. j # 0
    <3>1. S(0) = {z}
      OBVIOUS
    <3>2. \E m \in S(0) : \A x \in S(0) : m >= x
      BY <3>1
    <3> HIDE DEF S, bad
    <3> QED
      BY <2>3, <3>2
  <2>5. j - 1 \in 0 .. n /\ j - 1 \notin bad
    <3> HIDE DEF bad
    <3> QED
      BY <2>2, <2>3, <2>4
  <2>6. PICK m \in S(j - 1) : \A x \in S(j - 1) : m >= x
    BY <2>5
  <2>7. j \in 1 .. n /\ f[j] \in Int /\ m \in Int
    BY <2>3, <2>4
  <2>8. S(j) = S(j - 1) \cup {f[j]}
    BY <2>7
  <2> HIDE DEF S, bad
  <2>9. CASE f[j] >= m
    <3>1. S(j - 1) \subseteq Int
      BY <2>7 DEF S
    <3>2. \A x \in S(j) : f[j] >= x
      BY <2>6, <2>7, <2>8, <2>9, <3>1
    <3> QED
      BY <2>3, <2>8, <3>2
  <2>10. CASE ~ (f[j] >= m)
    BY <2>3, <2>6, <2>7, <2>8, <2>10
  <2> QED
    BY <2>9, <2>10
<1>2. n \notin bad
  BY <1>1
<1> QED
  BY <1>2

\* max_ts is the stamp of no row before any row's (annotate.py:323-326).
LEMMA MaxStampIsLast ==
  ASSUME P!TypeOK
  PROVE  P!MaxStamp \in Nat /\ \A k \in DOMAIN plan : P!Start(plan[k]) \in Nat /\ P!Start(plan[k]) <= P!MaxStamp
<1> DEFINE n == Len(plan)
           f == [k \in 1 .. n |-> plan[k].stamp]
           z == IF lastStamp > 0 THEN lastStamp ELSE 0
           S == {0, lastStamp} \cup {plan[k].stamp : k \in DOMAIN plan}
<1>1. /\ n \in Nat /\ DOMAIN plan = 1 .. n
      /\ \A k \in 1 .. n : plan[k].stamp \in Nat \cup {-1}
      /\ lastStamp \in Nat \cup {-1}
  <2>1. plan \in Seq(P!PlanRows) /\ lastStamp \in Stamps \cup {-1}
    BY DEF P!TypeOK, P!NoStamp
  <2>2. \A r \in P!PlanRows : r.stamp \in Nat \cup {-1}
    BY AnnotateAssumption DEF P!PlanRows, P!NoStamp
  <2>3. n \in Nat /\ DOMAIN plan = 1 .. n /\ \A k \in 1 .. n : plan[k] \in P!PlanRows
    BY <2>1
  <2> QED
    BY <2>1, <2>2, <2>3, AnnotateAssumption
<1>2. f \in [1 .. n -> Int] /\ z \in Int
  BY <1>1
<1>3. PICK m \in {z} \cup {f[k] : k \in 1 .. n} : \A x \in {z} \cup {f[k] : k \in 1 .. n} : m >= x
  <2> HIDE DEF f, z, n
  <2> QED
    BY <1>1, <1>2, GreatestOfMany
<1>4. m \in S
  BY <1>1, <1>3
<1>5. \A x \in S : m >= x
  <2> SUFFICES ASSUME NEW x \in S PROVE m >= x
    OBVIOUS
  <2>1. m \in Int /\ m >= z
    BY <1>1, <1>2, <1>3
  <2>2. CASE x \in {0, lastStamp}
    BY <1>1, <2>1, <2>2
  <2>3. CASE x \in {plan[k].stamp : k \in DOMAIN plan}
    <3>1. PICK k \in 1 .. n : x = f[k]
      BY <1>1, <2>3
    <3> QED
      BY <1>3, <3>1
  <2> QED
    BY <2>2, <2>3
<1>6. P!MaxStamp \in S /\ \A x \in S : P!MaxStamp >= x
  BY <1>4, <1>5 DEF P!MaxStamp, P!Max
<1> QED
  BY <1>1, <1>6 DEF P!Start, P!NoStamp

\* No subtask row is in the order twice (annotate.py:328-331).
LEMMA RowsDiffer ==
  ASSUME P!TypeOK, P!RowsInOrder, parsePc \in {"subtasks", "vqa", "entry"},
         NEW a \in DOMAIN order, NEW b \in DOMAIN order, a # b
  PROVE  order[a] # order[b]
<1>1. order[a] \in DOMAIN plan /\ order[b] \in DOMAIN plan
  BY DEF P!RowsInOrder, P!Subtasks
<1>2. \A k \in DOMAIN plan : k \in Int /\ P!Start(plan[k]) \in Nat
  BY MaxStampIsLast DEF P!TypeOK
<1>3. a \in Int /\ b \in Int
  BY DEF P!TypeOK
<1>4. P!Before(order[a], order[b]) \/ P!Before(order[b], order[a])
  BY <1>3 DEF P!RowsInOrder
<1> QED
  BY <1>1, <1>2, <1>4 DEF P!Before

\* The spans lie one after the other (annotate.py:332-341).
LEMMA SpansAreTiles ==
  ASSUME P!ParseInv
  PROVE  P!SpansTile
<1> USE DEF P!ParseInv
<1> SUFFICES ASSUME parsePc \in {"vqa", "entry"}
             PROVE  /\ {subtasks[k].row : k \in DOMAIN subtasks} = P!Subtasks
                    /\ \A j, k \in DOMAIN subtasks : j # k => subtasks[j].row # subtasks[k].row
                    /\ \A k \in DOMAIN subtasks :
                          /\ subtasks[k].start <= subtasks[k].end
                          /\ subtasks[k].end = IF k < Len(subtasks) THEN subtasks[k + 1].start
                                               ELSE P!MaxStamp
  BY DEF P!SpansTile
<1> DEFINE n == Len(order)
<1>1. /\ n \in Nat /\ DOMAIN order = 1 .. n /\ DOMAIN subtasks = 1 .. n /\ Len(subtasks) = n
  BY DEF P!TypeOK, P!SpansSoFar
<1>2. \A k \in 1 .. n :
         /\ subtasks[k].row = order[k] /\ subtasks[k].start = P!Start(plan[order[k]])
         /\ subtasks[k].end = IF k < n THEN P!Start(plan[order[k + 1]]) ELSE P!MaxStamp
  BY <1>1 DEF P!SpansSoFar
<1>3. {subtasks[k].row : k \in DOMAIN subtasks} = P!Subtasks
  BY <1>1, <1>2 DEF P!RowsInOrder
<1>4. ASSUME NEW k \in 1 .. n
      PROVE  /\ subtasks[k].start <= subtasks[k].end
             /\ subtasks[k].end = IF k < n THEN subtasks[k + 1].start ELSE P!MaxStamp
  <2>1. \A a \in 1 .. n : order[a] \in DOMAIN plan
    BY <1>1 DEF P!TypeOK, P!Subtasks
  <2>2. CASE k < n
    <3>1. k + 1 \in 1 .. n
      BY <1>1, <2>2
    <3>2. P!Before(order[k], order[k + 1])
      BY <1>1, <3>1 DEF P!RowsInOrder
    <3>3. P!Start(plan[order[k]]) <= P!Start(plan[order[k + 1]])
      BY <2>1, <3>1, <3>2, MaxStampIsLast DEF P!Before
    <3> QED
      BY <1>2, <2>2, <3>1, <3>3
  <2>3. CASE ~ (k < n)
    BY <1>2, <2>1, <2>3, MaxStampIsLast
  <2> QED
    BY <2>2, <2>3
<1>5. \A j, k \in 1 .. n : j # k => subtasks[j].row # subtasks[k].row
  BY <1>1, <1>2, RowsDiffer
<1> QED
  BY <1>1, <1>3, <1>4, <1>5

\* The rows of an episode are read and sorted.
LEMMA ReadKeeps ==
  ASSUME P!ParseInv, P!ReadRows
  PROVE  P!ParseInv'
<1> USE DEF P!ParseInv
<1>1. /\ UNCHANGED <<plan, vqa, lastStamp, subtasks, at, question, pairs>>
      /\ subtasks = <<>> /\ at = 0 /\ question = 0 /\ pairs = <<>>
      /\ P!Subtasks' = P!Subtasks
  BY DEF P!ReadRows, P!NothingParsed, P!files, P!Subtasks
<1>2. CASE parsePc' = "none"
  <2>1. order' = order /\ order = <<>>
    BY <1>2 DEF P!ReadRows, P!NothingParsed
  <2> QED
    BY <1>1, <1>2, <2>1 DEF P!TypeOK, P!RowsInOrder, P!SpansSoFar, P!PairsSoFar, P!NothingParsed
<1>3. CASE parsePc' = "subtasks"
  <2>1. /\ order' \in P!BoundedSeq(P!Subtasks, Len(plan))
        /\ {order'[a] : a \in DOMAIN order'} = P!Subtasks
        /\ \A a, b \in DOMAIN order' : a < b => P!Before(order'[a], order'[b])
    BY <1>3 DEF P!ReadRows
  <2>2. PICK n \in 0 .. Len(plan) : order' \in [1 .. n -> P!Subtasks]
    BY <2>1 DEF P!BoundedSeq, P!SeqOf
  <2>3. order' \in Seq(P!Subtasks)
    BY <2>2 DEF P!TypeOK
  <2>4. P!RowsInOrder'
    BY <1>1, <2>1 DEF P!RowsInOrder, P!Before, P!Start
  <2> QED
    BY <1>1, <1>3, <2>3, <2>4 DEF P!TypeOK, P!SpansSoFar, P!PairsSoFar, P!NothingParsed
<1> QED
  BY <1>2, <1>3 DEF P!ReadRows

\* A span is made of a row and the one after it.
LEMMA SubtaskKeeps ==
  ASSUME P!ParseInv, P!Subtask
  PROVE  P!ParseInv'
<1> USE DEF P!ParseInv
<1> DEFINE k == Len(subtasks) + 1
           start == P!Start(plan[order[k]])
           end == IF k = Len(order) THEN P!Max({P!MaxStamp, start})
                  ELSE IF plan[order[k + 1]].stamp \in {P!NoStamp, 0} THEN start
                  ELSE plan[order[k + 1]].stamp
           span == [row |-> order[k], start |-> start, end |-> end]
<1>1. /\ UNCHANGED <<plan, vqa, lastStamp, order, at, question, pairs, parsePc>>
      /\ parsePc = "subtasks" /\ subtasks' = Append(subtasks, span)
      /\ P!Subtasks' = P!Subtasks /\ P!MaxStamp' = P!MaxStamp
  BY DEF P!Subtask, P!files, P!Subtasks, P!MaxStamp
<1>2. /\ Len(order) \in Nat /\ DOMAIN order = 1 .. Len(order) /\ k \in 1 .. Len(order)
      /\ \A a \in 1 .. Len(order) : order[a] \in P!Subtasks /\ order[a] \in DOMAIN plan
  <2>1. order \in Seq(P!Subtasks) /\ Len(subtasks) \in Nat
    BY DEF P!TypeOK
  <2>2. Len(subtasks) < Len(order)
    BY DEF P!Subtask
  <2>3. P!Subtasks \subseteq DOMAIN plan
    BY DEF P!Subtasks
  <2> QED
    BY <2>1, <2>2, <2>3
<1>3. \A a \in 1 .. Len(order) : /\ P!Start(plan[order[a]]) \in Nat
                                /\ P!Start(plan[order[a]]) <= P!MaxStamp
  BY <1>2, MaxStampIsLast
<1>4. P!MaxStamp \in Nat
  BY MaxStampIsLast
<1>5. end = IF k < Len(order) THEN P!Start(plan[order[k + 1]]) ELSE P!MaxStamp
  <2>1. CASE k = Len(order)
    <3>1. P!Max({P!MaxStamp, start}) = P!MaxStamp
      BY <1>2, <1>3, <1>4 DEF P!Max
    <3> QED
      BY <2>1, <3>1
  <2>2. CASE k < Len(order)
    <3>1. k + 1 \in 1 .. Len(order) /\ k # Len(order) /\ k < k + 1
      <4>1. Len(order) \in Nat /\ k \in 1 .. Len(order)
        BY <1>2, Zenon
      <4> HIDE DEF k
      <4> QED
        BY <2>2, <4>1
    <3>2. start <= P!Start(plan[order[k + 1]])
      <4>1. P!Before(order[k], order[k + 1])
        <5>1. parsePc = "subtasks" /\ k \in DOMAIN order /\ k + 1 \in DOMAIN order
          BY <1>1, <1>2, <3>1
        <5> HIDE DEF k
        <5> QED
          BY <3>1, <5>1 DEF P!RowsInOrder
      <4>2. P!Start(plan[order[k]]) \in Nat /\ P!Start(plan[order[k + 1]]) \in Nat
        BY <1>2, <1>3, <3>1
      <4> QED
        BY <4>1, <4>2 DEF P!Before
    <3>3. CASE plan[order[k + 1]].stamp \in {P!NoStamp, 0}
      <4>1. P!Start(plan[order[k + 1]]) = 0
        BY <3>3 DEF P!Start
      <4>2. start = 0
        BY <1>2, <1>3, <3>2, <4>1
      <4> QED
        BY <2>2, <3>1, <3>3, <4>1, <4>2
    <3>4. CASE plan[order[k + 1]].stamp \notin {P!NoStamp, 0}
      BY <2>2, <3>1, <3>4 DEF P!Start
    <3> QED
      BY <3>3, <3>4
  <2>3. k = Len(order) \/ k < Len(order)
    <3>1. Len(order) \in Nat /\ k \in 1 .. Len(order)
      BY <1>2, Zenon
    <3> HIDE DEF k
    <3> QED
      BY <3>1
  <2> QED
    BY <2>1, <2>2, <2>3
<1>6. start \in Nat /\ end \in Nat
  <2> HIDE DEF end
  <2>1. start \in Nat
    BY <1>2, <1>3
  <2>2. k < Len(order) => k + 1 \in 1 .. Len(order)
    BY <1>2
  <2> QED
    BY <1>3, <1>4, <1>5, <2>1, <2>2
<1>7. /\ subtasks' \in Seq([row : P!Subtasks, start : Nat, end : Nat])
      /\ Len(subtasks') = k /\ DOMAIN subtasks' = 1 .. k
      /\ subtasks'[k] = span /\ \A a \in 1 .. k - 1 : subtasks'[a] = subtasks[a]
  <2>1. span \in [row : P!Subtasks, start : Nat, end : Nat]
    BY <1>2, <1>6
  <2>2. subtasks \in Seq([row : P!Subtasks, start : Nat, end : Nat])
    BY DEF P!TypeOK
  <2> HIDE DEF span
  <2> QED
    BY <1>1, <2>1, <2>2
<1>8. P!TypeOK' /\ P!RowsInOrder' /\ P!NothingParsed' /\ P!PairsSoFar'
  <2> HIDE DEF span, end, start, k
  <2>1. P!TypeOK'
    BY <1>1, <1>7 DEF P!TypeOK
  <2>2. P!RowsInOrder'
    BY <1>1 DEF P!RowsInOrder, P!Before, P!Start
  <2>3. P!NothingParsed' /\ P!PairsSoFar'
    BY <1>1 DEF P!NothingParsed, P!PairsSoFar
  <2> QED
    BY <2>1, <2>2, <2>3
<1>9. P!SpansSoFar'
  <2> SUFFICES ASSUME NEW a \in 1 .. k
               PROVE  /\ subtasks'[a].row = order[a] /\ subtasks'[a].start = P!Start(plan[order[a]])
                      /\ subtasks'[a].end = IF a < Len(order) THEN P!Start(plan[order[a + 1]])
                                            ELSE P!MaxStamp
    <3>1. k <= Len(order)
      <4> HIDE DEF k
      <4> QED
        BY <1>2
    <3>2. \A r : P!Start(r)' = P!Start(r)
      BY DEF P!Start
    <3> HIDE DEF span, end, start, k
    <3> QED
      BY <1>1, <1>7, <3>1 DEF P!SpansSoFar, P!Start
  <2>1. CASE a = k
    <3>1. span.row = order[k] /\ span.start = start /\ span.end = end
      OBVIOUS
    <3> HIDE DEF span, end
    <3> QED
      BY <1>5, <1>7, <2>1, <3>1
  <2>2. CASE a \in 1 .. k - 1
    <3>1. a \in DOMAIN subtasks
      BY <2>2 DEF P!TypeOK
    <3> QED
      BY <1>1, <1>7, <2>2, <3>1 DEF P!SpansSoFar
  <2> QED
    BY <1>2, <2>1, <2>2
<1> QED
  BY <1>8, <1>9

\* The spans are all there; the pairs are looked for.
LEMMA SubtasksDoneKeeps ==
  ASSUME P!ParseInv, P!SubtasksDone
  PROVE  P!ParseInv'
<1> USE DEF P!ParseInv
<1>1. /\ UNCHANGED <<plan, vqa, lastStamp, order, subtasks, at, question, pairs>>
      /\ parsePc = "subtasks" /\ parsePc' = "vqa" /\ Len(subtasks) = Len(order)
      /\ at = 0 /\ question = 0 /\ pairs = <<>>
      /\ P!Subtasks' = P!Subtasks /\ P!MaxStamp' = P!MaxStamp
  BY DEF P!SubtasksDone, P!NothingParsed, P!files, P!Subtasks, P!MaxStamp
<1>2. P!TypeOK' /\ P!NothingParsed'
  BY <1>1 DEF P!TypeOK, P!NothingParsed
<1>3. P!RowsInOrder' /\ P!SpansSoFar'
  BY <1>1 DEF P!RowsInOrder, P!SpansSoFar, P!Before, P!Start
<1>4. P!PairsSoFar'
  BY <1>1 DEF P!PairsSoFar
<1> QED
  BY <1>2, <1>3, <1>4

\* What the rows of vqa.jsonl leave alone.
LEMMA VqaFrame ==
  ASSUME P!ParseInv, P!VqaUser \/ P!VqaAssistant \/ P!VqaSkip \/ P!VqaDone
  PROVE  /\ P!RowsInOrder' /\ P!SpansSoFar' /\ P!NothingParsed'
         /\ parsePc = "vqa" /\ UNCHANGED <<plan, vqa, lastStamp, order, subtasks>>
         /\ P!Subtasks' = P!Subtasks
<1> USE DEF P!ParseInv
<1>1. /\ UNCHANGED <<plan, vqa, lastStamp, order, subtasks>>
      /\ parsePc = "vqa" /\ parsePc' \in {"vqa", "entry"}
      /\ P!Subtasks' = P!Subtasks /\ P!MaxStamp' = P!MaxStamp
  BY DEF P!VqaUser, P!VqaAssistant, P!VqaSkip, P!VqaDone, P!files, P!Subtasks, P!MaxStamp
<1> QED
  BY <1>1 DEF P!RowsInOrder, P!SpansSoFar, P!NothingParsed, P!Before, P!Start

\* A row that answers nothing makes no pair.
LEMMA NoNewAnswer ==
  ASSUME at \in Nat, \A q \in 1 .. at : ~ P!Answered(q, at + 1)
  PROVE  {p \in (1 .. at + 1) \X (1 .. at + 1) : P!Answered(p[1], p[2])} =
         {p \in (1 .. at) \X (1 .. at) : P!Answered(p[1], p[2])}
<1>1. ASSUME NEW p \in (1 .. at + 1) \X (1 .. at + 1), P!Answered(p[1], p[2])
      PROVE  p \in (1 .. at) \X (1 .. at)
  <2>1. p = <<p[1], p[2]>> /\ p[1] \in 1 .. at + 1 /\ p[2] \in 1 .. at + 1
    OBVIOUS
  <2>2. p[1] < p[2]
    BY <1>1 DEF P!Answered
  <2>3. p[1] \in 1 .. at
    BY <2>1, <2>2
  <2>4. p[2] # at + 1
    BY <1>1, <2>3
  <2>5. p[2] \in 1 .. at
    BY <2>1, <2>4
  <2> QED
    BY <2>1, <2>3, <2>5
<1>2. (1 .. at) \X (1 .. at) \subseteq (1 .. at + 1) \X (1 .. at + 1)
  OBVIOUS
<1> QED
  BY <1>1, <1>2

\* The rows looked at are one more.
LEMMA VqaTyped ==
  ASSUME P!ParseInv, P!VqaUser \/ P!VqaAssistant \/ P!VqaSkip,
         at' = at + 1, at + 1 \in 1 .. Len(vqa), question' \in 0 .. at + 1, parsePc' = "vqa",
         pairs' \in Seq((1 .. at + 1) \X (1 .. at + 1))
  PROVE  P!TypeOK'
<1> USE DEF P!ParseInv
<1>1. /\ plan' \in Seq(P!PlanRows) /\ vqa' \in Seq(P!VqaRoles)
      /\ lastStamp' \in Stamps \cup {P!NoStamp} /\ order' \in Seq(P!Subtasks')
  BY VqaFrame DEF P!TypeOK
<1>2. subtasks' \in Seq([row : P!Subtasks', start : Nat, end : Nat])
  BY VqaFrame DEF P!TypeOK
<1>3. at' \in 0 .. Len(vqa') /\ question' \in 0 .. at'
  BY VqaFrame DEF P!TypeOK
<1>4. pairs' \in Seq((1 .. at') \X (1 .. at'))
  OBVIOUS
<1> QED
  BY <1>1, <1>2, <1>3, <1>4 DEF P!TypeOK

\* So are the pairs of the rows looked at.
LEMMA VqaPaired ==
  ASSUME vqa' = vqa, parsePc' = "vqa",
         IF question' = 0
            THEN \A q \in 1 .. at' : vqa[q] = "user" => \E a \in q + 1 .. at' : vqa[a] # "other"
            ELSE vqa[question'] = "user" /\ \A k \in question' + 1 .. at' : vqa[k] = "other",
         {pairs'[k] : k \in DOMAIN pairs'} =
            {p \in (1 .. at') \X (1 .. at') : P!Answered(p[1], p[2])},
         \A j, k \in DOMAIN pairs' : j < k => pairs'[j][1] < pairs'[k][1]
  PROVE  P!PairsSoFar'
<1>1. \A p : P!Answered(p[1], p[2])' <=> P!Answered(p[1], p[2])
  BY DEF P!Answered
<1>2. {p \in (1 .. at') \X (1 .. at') : P!Answered(p[1], p[2])} =
      {p \in (1 .. at') \X (1 .. at') : P!Answered(p[1], p[2])'}
  BY <1>1
<1> QED
  BY <1>2 DEF P!PairsSoFar

\* A question replaces the one that was open.
LEMMA VqaUserKeeps ==
  ASSUME P!ParseInv, P!VqaUser
  PROVE  P!ParseInv'
<1> USE DEF P!ParseInv
<1>1. /\ at \in Nat /\ at + 1 \in 1 .. Len(vqa) /\ vqa[at + 1] = "user"
      /\ at' = at + 1 /\ question' = at + 1 /\ UNCHANGED <<pairs, parsePc>>
  BY DEF P!VqaUser, P!TypeOK
<1>2. {p \in (1 .. at + 1) \X (1 .. at + 1) : P!Answered(p[1], p[2])} =
      {p \in (1 .. at) \X (1 .. at) : P!Answered(p[1], p[2])}
  BY <1>1, NoNewAnswer DEF P!Answered
<1>3. P!PairsSoFar'
  <2>1. {pairs[k] : k \in DOMAIN pairs} = {p \in (1 .. at) \X (1 .. at) : P!Answered(p[1], p[2])}
    BY VqaFrame DEF P!PairsSoFar
  <2>2. \A j, k \in DOMAIN pairs : j < k => pairs[j][1] < pairs[k][1]
    BY VqaFrame DEF P!PairsSoFar
  <2>3. \A k \in at + 2 .. at + 1 : vqa[k] = "other"
    BY <1>1
  <2> QED
    BY <1>1, <1>2, <2>1, <2>2, <2>3, VqaFrame, VqaPaired
<1>4. P!TypeOK'
  <2>1. pairs \in Seq((1 .. at) \X (1 .. at))
    BY DEF P!TypeOK
  <2>2. (1 .. at) \X (1 .. at) \subseteq (1 .. at + 1) \X (1 .. at + 1)
    BY <1>1
  <2>3. pairs \in Seq((1 .. at + 1) \X (1 .. at + 1))
    BY <2>1, <2>2
  <2> QED
    BY <1>1, <2>3, VqaFrame, VqaTyped
<1> QED
  BY <1>3, <1>4, VqaFrame

\* Nothing is paired by an answer to no question, nor by a row of another style.
LEMMA VqaSkipKeeps ==
  ASSUME P!ParseInv, P!VqaSkip
  PROVE  P!ParseInv'
<1> USE DEF P!ParseInv
<1>1. /\ at \in Nat /\ at + 1 \in 1 .. Len(vqa)
      /\ vqa[at + 1] = "other" \/ (vqa[at + 1] = "assistant" /\ question = 0)
      /\ at' = at + 1 /\ UNCHANGED <<question, pairs, parsePc>>
  BY DEF P!VqaSkip, P!TypeOK
<1>2. IF question = 0
         THEN \A q \in 1 .. at : vqa[q] = "user" => \E a \in q + 1 .. at : vqa[a] # "other"
         ELSE vqa[question] = "user" /\ \A k \in question + 1 .. at : vqa[k] = "other"
  BY VqaFrame DEF P!PairsSoFar
<1>3. \A q \in 1 .. at : ~ P!Answered(q, at + 1)
  BY <1>1, <1>2 DEF P!Answered
<1>4. {p \in (1 .. at + 1) \X (1 .. at + 1) : P!Answered(p[1], p[2])} =
      {p \in (1 .. at) \X (1 .. at) : P!Answered(p[1], p[2])}
  BY <1>1, <1>3, NoNewAnswer
<1>5. IF question = 0
         THEN \A q \in 1 .. at + 1 : vqa[q] = "user" => \E a \in q + 1 .. at + 1 : vqa[a] # "other"
         ELSE vqa[question] = "user" /\ \A k \in question + 1 .. at + 1 : vqa[k] = "other"
  <2>1. CASE question = 0
    BY <1>1, <1>2, <2>1
  <2>2. CASE question # 0
    <3>1. question \in 0 .. at
      BY DEF P!TypeOK
    <3> QED
      BY <1>1, <1>2, <2>2, <3>1
  <2> QED
    BY <2>1, <2>2
<1>6. P!PairsSoFar'
  <2>1. {pairs[k] : k \in DOMAIN pairs} = {p \in (1 .. at) \X (1 .. at) : P!Answered(p[1], p[2])}
    BY VqaFrame DEF P!PairsSoFar
  <2>2. \A j, k \in DOMAIN pairs : j < k => pairs[j][1] < pairs[k][1]
    BY VqaFrame DEF P!PairsSoFar
  <2> QED
    BY <1>1, <1>4, <1>5, <2>1, <2>2, VqaFrame, VqaPaired
<1>7. P!TypeOK'
  <2>1. pairs \in Seq((1 .. at) \X (1 .. at)) /\ question \in 0 .. at
    BY DEF P!TypeOK
  <2>2. (1 .. at) \X (1 .. at) \subseteq (1 .. at + 1) \X (1 .. at + 1)
    BY <1>1
  <2>3. pairs \in Seq((1 .. at + 1) \X (1 .. at + 1)) /\ question \in 0 .. at + 1
    BY <1>1, <2>1, <2>2
  <2> QED
    BY <1>1, <2>3, VqaFrame, VqaTyped
<1> QED
  BY <1>6, <1>7, VqaFrame

\* An answer is paired with the question that is open, and with no other.
LEMMA VqaAssistantKeeps ==
  ASSUME P!ParseInv, P!VqaAssistant
  PROVE  P!ParseInv'
<1> USE DEF P!ParseInv
<1> DEFINE pair == <<question, at + 1>>
<1>1. /\ at \in Nat /\ at + 1 \in 1 .. Len(vqa) /\ vqa[at + 1] = "assistant"
      /\ question \in 1 .. at /\ pairs' = Append(pairs, pair)
      /\ at' = at + 1 /\ question' = 0 /\ UNCHANGED parsePc
      /\ pairs \in Seq((1 .. at) \X (1 .. at))
  BY DEF P!VqaAssistant, P!TypeOK
<1>2. vqa[question] = "user" /\ \A k \in question + 1 .. at : vqa[k] = "other"
  BY <1>1, VqaFrame DEF P!PairsSoFar
<1>3. \A q \in 1 .. at : P!Answered(q, at + 1) <=> q = question
  <2>1. ASSUME NEW q \in 1 .. at, P!Answered(q, at + 1) PROVE q = question
    <3>1. vqa[q] = "user" /\ \A k \in q + 1 .. at : vqa[k] = "other"
      BY <1>1, <2>1 DEF P!Answered
    <3>2. ~ (q < question)
      <4> SUFFICES ASSUME q < question PROVE FALSE
        OBVIOUS
      <4>1. question \in q + 1 .. at
        BY <1>1
      <4> QED
        BY <1>2, <3>1, <4>1
    <3>3. ~ (question < q)
      <4> SUFFICES ASSUME question < q PROVE FALSE
        OBVIOUS
      <4>1. q \in question + 1 .. at
        BY <1>1
      <4> QED
        BY <1>2, <3>1, <4>1
    <3> QED
      BY <1>1, <3>2, <3>3
  <2>2. P!Answered(question, at + 1)
    BY <1>1, <1>2 DEF P!Answered
  <2> QED
    BY <2>1, <2>2
<1> DEFINE paired == {p \in (1 .. at) \X (1 .. at) : P!Answered(p[1], p[2])}
           repaired == {p \in (1 .. at + 1) \X (1 .. at + 1) : P!Answered(p[1], p[2])}
<1>4. repaired = paired \cup {pair}
  <2>1. ASSUME NEW p \in repaired PROVE p \in paired \cup {pair}
    <3>1. p = <<p[1], p[2]>> /\ p[1] \in 1 .. at + 1 /\ p[2] \in 1 .. at + 1
      BY <2>1
    <3>2. P!Answered(p[1], p[2])
      BY <2>1
    <3>3. p[1] < p[2]
      BY <3>2 DEF P!Answered
    <3>4. p[1] \in 1 .. at
      BY <1>1, <3>1, <3>3
    <3>5. CASE p[2] = at + 1
      <4>1. p[1] = question
        BY <1>3, <3>2, <3>4, <3>5
      <4> QED
        BY <3>1, <3>5, <4>1
    <3>6. CASE p[2] # at + 1
      <4>1. p[2] \in 1 .. at
        BY <1>1, <3>1, <3>6
      <4> QED
        BY <3>1, <3>2, <3>4, <4>1
    <3> QED
      BY <3>5, <3>6
  <2>2. paired \subseteq repaired
    BY <1>1
  <2>3. pair \in repaired
    BY <1>1, <1>3
  <2> HIDE DEF paired, repaired
  <2> QED
    BY <2>1, <2>2, <2>3
<1>5. {pairs[k] : k \in DOMAIN pairs} = paired
  BY VqaFrame DEF P!PairsSoFar
<1>6. \A k \in DOMAIN pairs : pairs[k][1] < question
  <2> SUFFICES ASSUME NEW k \in DOMAIN pairs PROVE pairs[k][1] < question
    OBVIOUS
  <2>1. pairs[k] \in paired
    BY <1>5
  <2>2. pairs[k][1] \in 1 .. at /\ pairs[k][2] \in 1 .. at /\ P!Answered(pairs[k][1], pairs[k][2])
    BY <2>1
  <2> DEFINE q == pairs[k][1]
             a == pairs[k][2]
  <2>3. q < a /\ vqa[q] = "user" /\ vqa[a] = "assistant"
    BY <2>2 DEF P!Answered
  <2>4. q \in 1 .. at /\ a \in 1 .. at
    BY <2>2
  <2> HIDE DEF q, a
  <2>5. ~ (question < a)
    BY <1>1, <1>2, <2>3, <2>4
  <2>6. q < question
    BY <1>1, <2>3, <2>4, <2>5
  <2> QED
    BY <2>6 DEF q
<1>7. /\ Len(pairs) \in Nat /\ DOMAIN pairs = 1 .. Len(pairs)
      /\ DOMAIN pairs' = 1 .. Len(pairs) + 1
      /\ \A k \in 1 .. Len(pairs) : pairs'[k] = pairs[k]
      /\ pairs'[Len(pairs) + 1] = pair
  <2> HIDE DEF pair
  <2> QED
    BY <1>1
<1>8. {pairs'[k] : k \in DOMAIN pairs'} = repaired
  <2>1. DOMAIN pairs' = (DOMAIN pairs) \cup {Len(pairs) + 1}
    BY <1>7
  <2> HIDE DEF pair, paired, repaired
  <2> QED
    BY <1>4, <1>5, <1>7, <2>1
<1>9. \A j, k \in DOMAIN pairs' : j < k => pairs'[j][1] < pairs'[k][1]
  <2> SUFFICES ASSUME NEW j \in 1 .. Len(pairs) + 1, NEW k \in 1 .. Len(pairs) + 1, j < k
               PROVE  pairs'[j][1] < pairs'[k][1]
    BY <1>7
  <2>1. j \in 1 .. Len(pairs)
    BY <1>7
  <2>2. CASE k = Len(pairs) + 1
    <3>1. pair[1] = question
      OBVIOUS
    <3> HIDE DEF pair
    <3> QED
      BY <1>6, <1>7, <2>1, <2>2, <3>1
  <2>3. CASE k # Len(pairs) + 1
    <3>1. k \in 1 .. Len(pairs)
      BY <1>7, <2>3
    <3>2. pairs[j][1] < pairs[k][1]
      BY <1>7, <2>1, <3>1, VqaFrame DEF P!PairsSoFar
    <3> QED
      BY <1>7, <2>1, <3>1, <3>2
  <2> QED
    BY <2>2, <2>3
<1>10. \A q \in 1 .. at + 1 : vqa[q] = "user" => \E a \in q + 1 .. at + 1 : vqa[a] # "other"
  BY <1>1
<1>11. P!PairsSoFar'
  <2> HIDE DEF pair, paired
  <2> QED
    BY <1>1, <1>8, <1>9, <1>10, VqaFrame, VqaPaired
<1>12. P!TypeOK'
  <2>1. pair \in (1 .. at + 1) \X (1 .. at + 1)
    BY <1>1
  <2>2. (1 .. at) \X (1 .. at) \subseteq (1 .. at + 1) \X (1 .. at + 1)
    BY <1>1
  <2>3. pairs \in Seq((1 .. at + 1) \X (1 .. at + 1))
    BY <1>1, <2>2
  <2>4. pairs' \in Seq((1 .. at + 1) \X (1 .. at + 1))
    <3> HIDE DEF pair
    <3> QED
      BY <1>1, <2>1, <2>3
  <2> HIDE DEF pair, paired, repaired
  <2> QED
    BY <1>1, <2>4, VqaFrame, VqaTyped
<1> QED
  BY <1>11, <1>12, VqaFrame

\* The pairs are those of the whole file.
LEMMA VqaDoneKeeps ==
  ASSUME P!ParseInv, P!VqaDone
  PROVE  P!ParseInv'
<1> USE DEF P!ParseInv
<1>1. at = Len(vqa) /\ parsePc' = "entry" /\ UNCHANGED <<at, question, pairs>>
  BY DEF P!VqaDone
<1>2. P!PairsSoFar'
  BY <1>1, VqaFrame DEF P!PairsSoFar, P!Answered
<1>3. P!TypeOK'
  BY <1>1, VqaFrame DEF P!TypeOK
<1> QED
  BY <1>2, <1>3, VqaFrame

\* An episode is opened with nothing parsed of it, and leaves nothing behind.
LEMMA EpisodeKeeps ==
  ASSUME P!ParseInv, P!OpenEpisode \/ P!CloseEpisode
  PROVE  P!ParseInv'
<1> USE DEF P!ParseInv
<1>1. /\ parsePc' \in {"idle", "read"}
      /\ order' = <<>> /\ subtasks' = <<>> /\ at' = 0 /\ question' = 0 /\ pairs' = <<>>
  BY DEF P!OpenEpisode, P!CloseEpisode, P!NothingParsed
<1>2. plan' \in Seq(P!PlanRows)
  <2>1. CASE P!OpenEpisode
    <3>1. PICK n \in 0 .. MaxPlan : plan' \in [1 .. n -> P!PlanRows]
      BY <2>1 DEF P!OpenEpisode, P!BoundedSeq, P!SeqOf
    <3> QED
      BY <3>1, AnnotateAssumption
  <2>2. CASE P!CloseEpisode
    <3>1. plan' = <<>>
      BY <2>2 DEF P!CloseEpisode
    <3> QED
      BY <3>1
  <2> QED
    BY <2>1, <2>2
<1>3. vqa' \in Seq(P!VqaRoles)
  <2>1. CASE P!OpenEpisode
    <3>1. PICK n \in 0 .. MaxRows - Len(plan') : vqa' \in [1 .. n -> P!VqaRoles]
      BY <2>1 DEF P!OpenEpisode, P!BoundedSeq, P!SeqOf
    <3>2. Len(plan') \in Nat
      BY <1>2
    <3> QED
      BY <3>1, <3>2, AnnotateAssumption
  <2>2. CASE P!CloseEpisode
    <3>1. vqa' = <<>>
      BY <2>2 DEF P!CloseEpisode
    <3> QED
      BY <3>1
  <2> QED
    BY <2>1, <2>2
<1>4. lastStamp' \in Stamps \cup {P!NoStamp}
  BY DEF P!OpenEpisode, P!CloseEpisode
<1>5. P!TypeOK'
  BY <1>1, <1>2, <1>3, <1>4 DEF P!TypeOK
<1>6. P!RowsInOrder' /\ P!SpansSoFar' /\ P!PairsSoFar' /\ P!NothingParsed'
  BY <1>1 DEF P!RowsInOrder, P!SpansSoFar, P!PairsSoFar, P!NothingParsed
<1> QED
  BY <1>5, <1>6

\* What is known of an episode that is not being worked on does not change.
LEMMA ParseRests ==
  ASSUME P!ParseInv, UNCHANGED parseVars
  PROVE  P!ParseInv'
<1> USE DEF P!ParseInv, parseVars
<1>1. P!Subtasks' = P!Subtasks /\ P!MaxStamp' = P!MaxStamp
  BY DEF P!Subtasks, P!MaxStamp
<1>2. P!TypeOK' /\ P!NothingParsed'
  BY <1>1 DEF P!TypeOK, P!NothingParsed
<1>3. P!RowsInOrder' /\ P!SpansSoFar'
  BY <1>1 DEF P!RowsInOrder, P!SpansSoFar, P!Before, P!Start
<1>4. P!PairsSoFar'
  BY DEF P!PairsSoFar, P!Answered
<1> QED
  BY <1>2, <1>3, <1>4

\* The invariant of the parser holds in every state of a run: of each episode the child
\* staged, for files of any length.
THEOREM ParseInvariant == Spec => []ParseInv
<1> USE DEF ParseInv
<1>1. Init => ParseInv
  <2> SUFFICES ASSUME P!Init PROVE P!ParseInv
    BY DEF Init
  <2>1. /\ plan = <<>> /\ vqa = <<>> /\ lastStamp = P!NoStamp /\ parsePc = "idle"
        /\ order = <<>> /\ subtasks = <<>> /\ at = 0 /\ question = 0 /\ pairs = <<>>
    BY DEF P!Init
  <2> QED
    BY <2>1 DEF P!ParseInv, P!TypeOK, P!RowsInOrder, P!SpansSoFar, P!PairsSoFar, P!NothingParsed
<1>2. ParseInv /\ [Next]_vars => ParseInv'
  <2> SUFFICES ASSUME P!ParseInv, [Next]_vars PROVE P!ParseInv'
    OBVIOUS
  <2>1. CASE ParseEpisode
    BY <2>1, ReadKeeps, SubtaskKeeps, SubtasksDoneKeeps, VqaUserKeeps, VqaAssistantKeeps,
       VqaSkipKeeps, VqaDoneKeeps DEF ParseEpisode, P!ParseStep
  <2>2. CASE NextEpisode \/ EpisodeDone
    BY <2>2, EpisodeKeeps DEF NextEpisode, EpisodeDone
  <2>3. CASE UNCHANGED vars
    BY <2>3, ParseRests DEF vars
  <2>4. CASE Next /\ ~ (ParseEpisode \/ NextEpisode \/ EpisodeDone)
    <3>1. UNCHANGED parseVars
      BY <2>4 DEF Next, ChildGoesOn, MainStep, StageEpisode, PrintLine, ChildExits,
         ResolveCli, Download, Locate, Launch, Poll, Drain, Count, AnswerTrue, AnswerFalse,
         WaitedForChild, TermTimesOut, KillTimesOut, Ended,
         TakeReport, TakeStaging, SourceFails, SortFails, AllEpisodes, Filter, FilterFails
    <3> QED
      BY <3>1, ParseRests
  <2> QED
    BY <2>1, <2>2, <2>3, <2>4
<1> QED
  BY <1>1, <1>2, PTL DEF Spec

\* The spans of an episode cover its time without gap or overlap and each subtask row has
\* one, whichever rows lack a timestamp or have none but 0 (annotate.py:17-20 and 328-341).
THEOREM SpansTileHolds == Spec => []SpansTile
<1>1. ParseInv => SpansTile
  BY SpansAreTiles DEF ParseInv, SpansTile
<1> QED
  BY <1>1, ParseInvariant, PTL

\* Each question is paired with the first answer after it unless another question comes
\* in between, and nothing else is (annotate.py:349-363).
THEOREM PairsAreAnswersHolds == Spec => []PairsAreAnswers
<1>1. P!ParseInv => P!PairsAreAnswers
  <2> SUFFICES ASSUME P!ParseInv, parsePc = "entry"
               PROVE  /\ {pairs[k] : k \in DOMAIN pairs} =
                             {p \in (DOMAIN vqa) \X (DOMAIN vqa) : P!Answered(p[1], p[2])}
                      /\ \A j, k \in DOMAIN pairs : j < k => pairs[j][1] < pairs[k][1]
    BY DEF P!PairsAreAnswers
  <2>1. DOMAIN vqa = 1 .. at
    BY DEF P!ParseInv, P!PairsSoFar, P!TypeOK
  <2> QED
    BY <2>1 DEF P!ParseInv, P!PairsSoFar
<1>2. ParseInv => PairsAreAnswers
  BY <1>1 DEF ParseInv, PairsAreAnswers
<1> QED
  BY <1>2, ParseInvariant, PTL
=============================================================================
