---------------------------- MODULE RewardModel ----------------------------
(***************************************************************************)
(* RewardModelRunner.train (eval/reward_model.py): the episodes that were  *)
(* asked for are scored one after the other; the curve of an episode has   *)
(* one point for each of a number of growing prefixes, and each point is   *)
(* read at the end of a window of at most max_frames frames.               *)
(*                                                                         *)
(* The frames of the dataset are numbered through, episode after episode:  *)
(* the metadata of an episode names its first frame and the one after its  *)
(* last, which is the first of the next episode.                           *)
(* A score is abstracted to the endpoint it was read at.  round() goes to  *)
(* the even neighbour of a tie; the quotient of the endpoints is exact     *)
(* where it ties, the product i * step of a window is not, so that there   *)
(* a tie may go either way.                                                *)
(***************************************************************************)
EXTENDS Integers, FiniteSets, FiniteSetsExt, Sequences

CONSTANTS
    Episodes,         \* bound: total_episodes of the dataset
    MaxLength,        \* bound: frames of an episode
    Requests,         \* hyperparameters["episodes"], <<>> when absent
    FramesChoices,    \* bound: max_frames; 0 means the default
    PointsChoices     \* bound: curve_points

ASSUME RewardAssumption ==
    /\ Episodes \in Nat /\ MaxLength \in Nat
    /\ Requests \subseteq Seq(Int)
    /\ FramesChoices \subseteq Int \ {0} /\ PointsChoices \subseteq Int \ {0}

VARIABLES
    index,       \* dataset_from_index of each episode, and the number of frames: fixed
    maxFrames, curvePoints,    \* hyperparameters: fixed
    episodes,    \* the episodes to score
    i,           \* the position of the one under way
    endpoints,   \* its prefix endpoints that are still to be scored
    window,      \* history: the frames of the last window
    curve,       \* its points, as the endpoints they were read at
    rewards,     \* the records of the episodes scored
    pc

fixed == <<index, maxFrames, curvePoints>>
vars == <<fixed, episodes, i, endpoints, window, curve, rewards, pc>>

All == 0 .. Episodes - 1

\* _episode_frame_range
From(e) == index[e]
To(e) == index[e + 1]
Frames(e) == To(e) - From(e)

\* round(p / q)
Round(p, q) == LET d == p \div q
                   r == p % q
               IN  IF 2 * r < q \/ (2 * r = q /\ d % 2 = 0) THEN d ELSE d + 1

PointCount(n) == Max({1, Min({curvePoints, n})})

\* Mutant: the endpoints are the first frames of the parts.
Endpoints_Starts(s, n) ==
    {s + Max({0, Round(j * n, PointCount(n))}) : j \in 0 .. PointCount(n) - 1}

Endpoints(s, n) ==
    {s + Max({0, Round((j + 1) * n, PointCount(n)) - 1}) : j \in 0 .. PointCount(n) - 1}

\* The frames s + round(k * (span - 1) / (count - 1)); up are the ties that went up.
Spread(s, steps, width, up) ==
    {s + IF 2 * ((k * width) % steps) > steps \/ k \in up
            THEN (k * width) \div steps + 1
            ELSE (k * width) \div steps : k \in 0 .. steps}

\* Mutant: the step is span / count.
SampleWindows_WideStep(s, e) ==
    LET span == e - s + 1
        count == Min({maxFrames, span})
    IN  IF count <= 1 THEN {{e}}
        ELSE {{s + Round(k * span, count) : k \in 0 .. count - 1} \cup {e}}

\* _sample_window
SampleWindows(s, e) ==
    LET span == e - s + 1
        count == Min({maxFrames, span})
        ties == {k \in 0 .. count - 1 : 2 * ((k * (span - 1)) % (count - 1)) = count - 1}
    IN  IF count <= 1 THEN {{e}}
        ELSE {Spread(s, count - 1, span - 1, up) \cup {e} : up \in SUBSET ties}

Indexes == {f \in [0 .. Episodes -> 0 .. Episodes * MaxLength] :
              f[0] = 0 /\ \A e \in All : f[e + 1] - f[e] \in 0 .. MaxLength}

Init == /\ index \in Indexes
        /\ maxFrames \in FramesChoices /\ curvePoints \in PointsChoices
        /\ episodes \in Requests
        /\ i = 1 /\ endpoints = {} /\ window = {} /\ curve = <<>> /\ rewards = <<>>
        /\ pc = "resolve"

\* _resolve_episodes
Resolve == /\ pc = "resolve"
           /\ IF episodes = <<>>
                 THEN /\ episodes' = [k \in 1 .. Episodes |-> k - 1]
                      /\ pc' = "next"
                 ELSE /\ pc' = IF \A k \in DOMAIN episodes : episodes[k] \in All THEN "next" ELSE "failed"
                      /\ UNCHANGED episodes
           /\ UNCHANGED <<fixed, i, endpoints, window, curve, rewards>>

\* The head of _score_episode: an empty episode has no curve.
NextEpisode == /\ pc = "next" /\ i <= Len(episodes)
               /\ curve' = <<>>
               /\ LET e == episodes[i]
                  IN  IF Frames(e) = 0
                      THEN pc' = "report" /\ endpoints' = {}
                      ELSE pc' = "score" /\ endpoints' = Endpoints(From(e), Frames(e))
               /\ UNCHANGED <<fixed, episodes, i, window, rewards>>

ScoreWindow == /\ pc = "score"
               /\ \E e \in endpoints :
                     /\ \A f \in endpoints : e <= f
                     /\ window' \in SampleWindows(From(episodes[i]), e)
                     /\ curve' = Append(curve, e)
                     /\ endpoints' = endpoints \ {e}
               /\ pc' = IF endpoints' = {} THEN "report" ELSE "score"
               /\ UNCHANGED <<fixed, episodes, i, rewards>>

\* The record is appended, then on_progress is asked.
ReportEpisode == /\ pc = "report"
                 /\ rewards' = Append(rewards, [episode |-> episodes[i], curve |-> curve])
                 /\ \/ pc' = "next" /\ i' = i + 1
                    \/ pc' = "cancelled" /\ UNCHANGED i
                 /\ UNCHANGED <<fixed, episodes, endpoints, window, curve>>

\* rewards.json
WriteRewards == /\ pc = "next" /\ i > Len(episodes)
                /\ pc' = "saved"
                /\ UNCHANGED <<fixed, episodes, i, endpoints, window, curve, rewards>>

\* Before an episode: a reward type that is not supported, a download or a model that fails.
\* Then: a frame that cannot be decoded, a model that runs out of memory.
ScoreFails == /\ pc \in {"resolve", "score"}
              /\ pc' = "failed"
              /\ UNCHANGED <<fixed, episodes, i, endpoints, window, curve, rewards>>

Next == Resolve \/ NextEpisode \/ ScoreWindow \/ ReportEpisode \/ WriteRewards \/ ScoreFails

Spec == Init /\ [][Next]_vars

-----------------------------------------------------------------------------
\* Every variable keeps its type.
TypeOK ==
    /\ index \in Indexes
    /\ maxFrames \in FramesChoices /\ curvePoints \in PointsChoices
    /\ episodes \in Seq(Int) /\ i \in 1 .. Len(episodes) + 1
    /\ endpoints \subseteq Nat /\ window \subseteq Nat /\ curve \in Seq(Nat)
    /\ rewards \in Seq([episode : All, curve : Seq(Nat)])
    /\ pc \in {"resolve", "next", "score", "report", "saved", "cancelled", "failed"}

\* A window is full: it has max_frames frames, or the whole prefix if that is shorter,
\* none of them from another episode or twice, and it ends where the score is read
\* (reward_model.py:345-356).
FullWindow(w, s, e) == /\ e \in w /\ w \subseteq s .. e
                       /\ Cardinality(w) = Max({1, Min({maxFrames, e - s + 1})})

WindowFits ==
    curve # <<>> /\ pc \in {"score", "report"} =>
        FullWindow(window, From(episodes[i]), curve[Len(curve)])

\* The curve of a non-empty episode grows, has as many points as were asked for (or one
\* per frame), none lost by two endpoints being rounded to one, and its score is read
\* at the last frame of the episode (reward_model.py:126 and 313-317).
Grows(c) == \A a, b \in 1 .. Len(c) : a < b => c[a] < c[b]

Covers(c, e) == IF Frames(e) = 0 THEN c = <<>>
                ELSE /\ Len(c) = Max({1, Min({curvePoints, Frames(e)})})
                     /\ c[Len(c)] = To(e) - 1
                     /\ Grows(c)

CurveCoversEpisode == \A k \in 1 .. Len(rewards) : Covers(rewards[k].curve, rewards[k].episode)

-----------------------------------------------------------------------------
(* The inductive invariant behind them. *)

\* Which episode is under way.
EpisodeKnown ==
    /\ pc \in {"next", "score", "report"} => \A k \in DOMAIN episodes : episodes[k] \in All
    /\ pc \in {"score", "report"} => i \in DOMAIN episodes

\* What was scored of it lies before what is left, and together they make up its curve.
CurveSoFar ==
    /\ pc = "score" =>
          LET e == episodes[i]
          IN  /\ Frames(e) > 0
              /\ IsFiniteSet(endpoints) /\ endpoints \subseteq From(e) .. To(e) - 1
              /\ To(e) - 1 \in endpoints
              /\ Len(curve) + Cardinality(endpoints) = PointCount(Frames(e))
              /\ Grows(curve) /\ \A a \in 1 .. Len(curve), f \in endpoints : curve[a] < f
    /\ pc = "report" => Covers(curve, episodes[i])

IInv == TypeOK /\ EpisodeKnown /\ CurveSoFar /\ WindowFits /\ CurveCoversEpisode
=============================================================================
