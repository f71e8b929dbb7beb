---------------------------- MODULE RewardProofs ----------------------------
(***************************************************************************)
(* Proofs about the reward-model runner (module RewardModel) for any       *)
(* dataset and any hyperparameters: what rounding makes of the ends of the *)
(* prefixes and of the frames of a window.                                 *)
(***************************************************************************)
EXTENDS RewardModel, FiniteSetTheorems, FunctionTheorems, TLAPS

-----------------------------------------------------------------------------
(* Rounding. *)

\* Quotient and remainder.
LEMMA Quotient ==
  ASSUME NEW p \in Nat, NEW q \in Nat \ {0}
  PROVE  /\ p \div q \in Nat /\ p % q \in 0 .. q - 1
         /\ p = q * (p \div q) + (p % q)
OBVIOUS

\* round() is off by a half at most.
LEMMA RoundIsNear ==
  ASSUME NEW p \in Nat, NEW q \in Nat \ {0}
  PROVE  /\ Round(p, q) \in Nat
         /\ q * (2 * Round(p, q) - 1) <= 2 * p
         /\ 2 * p <= q * (2 * Round(p, q) + 1)
<1> DEFINE d == p \div q
           r == p % q
<1>1. d \in Nat /\ r \in 0 .. q - 1 /\ p = q * d + r
  BY Quotient
<1>2. \/ Round(p, q) = d /\ 2 * r <= q
      \/ Round(p, q) = d + 1 /\ 2 * r >= q
  BY <1>1 DEF Round
<1> HIDE DEF d, r
<1> QED
  BY <1>1, <1>2

\* A quotient that is a whole number stays as it is.
LEMMA RoundIsExact ==
  ASSUME NEW c \in Nat, NEW q \in Nat \ {0}
  PROVE  (c * q) % q = 0 /\ (c * q) \div q = c /\ Round(c * q, q) = c
<1> DEFINE d == (c * q) \div q
           r == (c * q) % q
<1>1. d \in Nat /\ r \in 0 .. q - 1 /\ c * q = q * d + r
  <2>1. c * q \in Nat
    OBVIOUS
  <2> QED
    BY <2>1, Quotient
<1>2. Round(c * q, q) = IF 2 * r < q \/ (2 * r = q /\ d % 2 = 0) THEN d ELSE d + 1
  BY DEF Round
<1> HIDE DEF d, r
<1>3. q * (c - d) = r
  BY <1>1
<1>4. c - d = 0
  <2>1. CASE c - d >= 1
    <3>1. q * (c - d) >= q
      BY <1>1, <2>1
    <3> QED
      BY <1>1, <1>3, <3>1
  <2>2. CASE c - d <= -1
    <3>1. q * (c - d) <= -q
      BY <1>1, <2>2
    <3> QED
      BY <1>1, <1>3, <3>1
  <2> QED
    BY <1>1, <2>1, <2>2
<1>5. d = c /\ r = 0
  BY <1>1, <1>3, <1>4
<1> QED
  BY <1>2, <1>5 DEF d, r

\* Numbers that are more than q apart, divided by q and rounded either way at ties, stay
\* apart.
LEMMA NearGrows ==
  ASSUME NEW q \in Nat \ {0}, NEW p \in Int, NEW pp \in Int, p + q < pp,
         NEW d \in Int, NEW dd \in Int,
         q * (2 * d - 1) <= 2 * p, 2 * pp <= q * (2 * dd + 1)
  PROVE  d < dd
<1> SUFFICES ASSUME dd <= d PROVE FALSE
  OBVIOUS
<1>1. q * (2 * dd + 1) <= q * (2 * d + 1)
  OBVIOUS
<1>2. q * (2 * d + 1) = q * (2 * d - 1) + 2 * q
  OBVIOUS
<1> QED
  BY <1>1, <1>2

-----------------------------------------------------------------------------
(* Sets given by a growing function. *)

\* A growing function on 0 .. m takes m + 1 values, the first and the last at the ends.
LEMMA GrowingImage ==
  ASSUME NEW m \in Nat, NEW f \in [0 .. m -> Int],
         \A j, k \in 0 .. m : j < k => f[j] < f[k]
  PROVE  LET S == {f[j] : j \in 0 .. m}
         IN  /\ IsFiniteSet(S) /\ Cardinality(S) = m + 1
             /\ S \subseteq f[0] .. f[m] /\ f[m] \in S
<1> DEFINE S == {f[j] : j \in 0 .. m}
<1>1. f \in Bijection(0 .. m, S)
  <2>1. \A j, k \in 0 .. m : f[j] = f[k] => j = k
    OBVIOUS
  <2>2. f \in [0 .. m -> S] /\ \A x \in S : \E j \in 0 .. m : f[j] = x
    OBVIOUS
  <2> QED
    BY <2>1, <2>2, Fun_IsBij
<1>2. IsFiniteSet(0 .. m) /\ Cardinality(0 .. m) = m + 1
  BY FS_Interval
<1>3. IsFiniteSet(S) /\ Cardinality(S) = m + 1
  BY <1>1, <1>2, FS_Bijection, Fun_ExistsBij
<1>4. \A j \in 0 .. m : f[0] <= f[j] /\ f[j] <= f[m]
  <2> SUFFICES ASSUME NEW j \in 0 .. m PROVE f[0] <= f[j] /\ f[j] <= f[m]
    OBVIOUS
  <2>1. j = 0 \/ f[0] < f[j]
    OBVIOUS
  <2>2. j = m \/ f[j] < f[m]
    OBVIOUS
  <2> QED
    BY <2>1, <2>2
<1> QED
  BY <1>3, <1>4

\* Max and Min of two numbers.
LEMMA TwoNumbers ==
  ASSUME NEW a \in Int, NEW b \in Int
  PROVE  /\ Max({a, b}) = IF a >= b THEN a ELSE b
         /\ Min({a, b}) = IF a <= b THEN a ELSE b
BY DEF Max, Min

\* The number of points of a curve.
LEMMA PointsBounded ==
  ASSUME NEW n \in Nat \ {0}, curvePoints \in Int
  PROVE  PointCount(n) \in 1 .. n
<1> DEFINE least == Min({curvePoints, n})
<1>1. least \in Int /\ least <= n
  <2>1. least = IF curvePoints <= n THEN curvePoints ELSE n
    BY TwoNumbers, n \in Int, Zenon
  <2> HIDE DEF least
  <2> QED
    BY <2>1
<1> HIDE DEF least
<1>2. Max({1, least}) = IF 1 >= least THEN 1 ELSE least
  BY <1>1, TwoNumbers
<1>3. PointCount(n) = Max({1, least})
  BY DEF PointCount, least
<1> QED
  BY <1>1, <1>2, <1>3

\* The ends of the prefixes are as many as there are points, they lie in the episode, and
\* the last one is its last frame (reward_model.py:313-317).
LEMMA EndpointsShape ==
  ASSUME NEW s \in Nat, NEW n \in Nat \ {0}, curvePoints \in Int
  PROVE  /\ IsFiniteSet(Endpoints(s, n)) /\ Cardinality(Endpoints(s, n)) = PointCount(n)
         /\ Endpoints(s, n) \subseteq s .. s + n - 1 /\ s + n - 1 \in Endpoints(s, n)
<1> DEFINE q == PointCount(n)
           R(j) == Round((j + 1) * n, q)
           f == [j \in 0 .. q - 1 |-> s + (R(j) - 1)]
<1>1. q \in 1 .. n
  BY PointsBounded
<1> HIDE DEF q
<1>2. \A j \in 0 .. q - 1 : /\ R(j) \in Nat \ {0}
                           /\ q * (2 * R(j) - 1) <= 2 * ((j + 1) * n)
                           /\ 2 * ((j + 1) * n) <= q * (2 * R(j) + 1)
  <2> SUFFICES ASSUME NEW j \in 0 .. q - 1
               PROVE  /\ R(j) \in Nat \ {0}
                      /\ q * (2 * R(j) - 1) <= 2 * ((j + 1) * n)
                      /\ 2 * ((j + 1) * n) <= q * (2 * R(j) + 1)
    OBVIOUS
  <2>1. (j + 1) * n \in Nat /\ (j + 1) * n >= n
    BY <1>1
  <2>2. /\ R(j) \in Nat
        /\ q * (2 * R(j) - 1) <= 2 * ((j + 1) * n)
        /\ 2 * ((j + 1) * n) <= q * (2 * R(j) + 1)
    BY <1>1, <2>1, RoundIsNear
  <2>3. R(j) # 0
    <3> SUFFICES ASSUME R(j) = 0 PROVE FALSE
      OBVIOUS
    <3>1. q * (2 * 0 + 1) = q
      BY <1>1
    <3>2. 2 * ((j + 1) * n) <= q
      BY <2>2, <3>1, Zenon
    <3> QED
      BY <1>1, <2>1, <3>2
  <2> QED
    BY <2>2, <2>3
<1>3. \A j, k \in 0 .. q - 1 : j < k => R(j) < R(k)
  <2> SUFFICES ASSUME NEW j \in 0 .. q - 1, NEW k \in 0 .. q - 1, j < k
               PROVE  R(j) < R(k)
    OBVIOUS
  <2>1. CASE q < n
    <3>1. (k + 1) * n = (j + 1) * n + (k - j) * n /\ (k - j) * n >= n
      BY <1>1
    <3>2. (j + 1) * n \in Int /\ (k + 1) * n \in Int /\ (j + 1) * n + q < (k + 1) * n
      BY <1>1, <2>1, <3>1
    <3>3. /\ R(j) \in Int /\ R(k) \in Int /\ q \in Nat \ {0}
          /\ q * (2 * R(j) - 1) <= 2 * ((j + 1) * n)
          /\ 2 * ((k + 1) * n) <= q * (2 * R(k) + 1)
      <4> HIDE DEF R
      <4> QED
        BY <1>1, <1>2
    <3> QED
      BY <3>2, <3>3, NearGrows, Zenon
  <2>2. CASE q = n
    <3>1. \A c \in Nat : Round(c * n, q) = c
      BY <1>1, <2>2, RoundIsExact
    <3>2. j + 1 \in Nat /\ k + 1 \in Nat
      BY <1>1
    <3>3. R(j) = j + 1 /\ R(k) = k + 1
      BY <3>1, <3>2
    <3> QED
      BY <1>1, <3>3
  <2> QED
    BY <1>1, <2>1, <2>2
<1>4. R(q - 1) = n
  <2>1. (q - 1 + 1) * n = n * q
    BY <1>1
  <2> QED
    BY <1>1, <2>1, RoundIsExact
<1> HIDE DEF R
<1>5. f \in [0 .. q - 1 -> Int] /\ \A j, k \in 0 .. q - 1 : j < k => f[j] < f[k]
  BY <1>2, <1>3
<1>6. f[0] >= s /\ f[q - 1] = s + n - 1
  BY <1>1, <1>2, <1>4
<1>7. Endpoints(s, n) = {f[j] : j \in 0 .. q - 1}
  <2>1. \A j \in 0 .. q - 1 : Max({0, R(j) - 1}) = R(j) - 1
    BY <1>2, TwoNumbers
  <2>2. Endpoints(s, n) = {s + Max({0, R(j) - 1}) : j \in 0 .. q - 1}
    BY DEF Endpoints, q, R
  <2> QED
    BY <2>1, <2>2
<1>8. /\ IsFiniteSet(Endpoints(s, n)) /\ Cardinality(Endpoints(s, n)) = q
      /\ Endpoints(s, n) \subseteq f[0] .. f[q - 1] /\ f[q - 1] \in Endpoints(s, n)
  <2> HIDE DEF f
  <2>1. q - 1 \in Nat /\ q - 1 + 1 = q
    BY <1>1
  <2> QED
    BY <1>5, <1>7, <2>1, GrowingImage
<1>9. f[0] .. f[q - 1] \subseteq s .. s + n - 1
  <2>1. f[0] \in Int
    BY <1>1, <1>5
  <2> HIDE DEF f
  <2> QED
    BY <1>6, <2>1
<1> QED
  BY <1>6, <1>8, <1>9 DEF q

\* The frames of a window, whichever way each tie goes: as many as were asked for, the last
\* one the end of the prefix (reward_model.py:351-352).
LEMMA SpreadShape ==
  ASSUME NEW s \in Nat, NEW steps \in Nat \ {0}, NEW width \in Nat, steps <= width,
         NEW up, \A k \in up : 2 * ((k * width) % steps) = steps
  PROVE  /\ IsFiniteSet(Spread(s, steps, width, up))
         /\ Cardinality(Spread(s, steps, width, up)) = steps + 1
         /\ Spread(s, steps, width, up) \subseteq s .. s + width
         /\ s + width \in Spread(s, steps, width, up)
<1> DEFINE d(k) == (k * width) \div steps
           r(k) == (k * width) % steps
           V(k) == IF 2 * r(k) > steps \/ k \in up THEN d(k) + 1 ELSE d(k)
           f == [k \in 0 .. steps |-> s + V(k)]
<1>1. \A k \in 0 .. steps : /\ V(k) \in Nat
                            /\ steps * (2 * V(k) - 1) <= 2 * (k * width)
                            /\ 2 * (k * width) <= steps * (2 * V(k) + 1)
  <2> SUFFICES ASSUME NEW k \in 0 .. steps
               PROVE  /\ V(k) \in Nat
                      /\ steps * (2 * V(k) - 1) <= 2 * (k * width)
                      /\ 2 * (k * width) <= steps * (2 * V(k) + 1)
    OBVIOUS
  <2>1. k * width \in Nat
    OBVIOUS
  <2>2. d(k) \in Nat /\ r(k) \in 0 .. steps - 1 /\ k * width = steps * d(k) + r(k)
    BY <2>1, Quotient
  <2>3. \/ V(k) = d(k) /\ 2 * r(k) <= steps
        \/ V(k) = d(k) + 1 /\ 2 * r(k) >= steps
    <3>1. k \in up => 2 * r(k) = steps
      OBVIOUS
    <3> HIDE DEF d, r
    <3> QED
      BY <2>2, <3>1
  <2> HIDE DEF d, r, V
  <2> QED
    BY <2>2, <2>3
<1>2. \A c \in Nat : (c * steps) % steps = 0 /\ (c * steps) \div steps = c
  BY RoundIsExact
<1>3. \A j, k \in 0 .. steps : j < k => V(j) < V(k)
  <2> SUFFICES ASSUME NEW j \in 0 .. steps, NEW k \in 0 .. steps, j < k
               PROVE  V(j) < V(k)
    OBVIOUS
  <2>1. CASE steps < width
    <3>1. k * width = j * width + (k - j) * width /\ (k - j) * width >= width
      OBVIOUS
    <3>2. j * width \in Int /\ k * width \in Int /\ j * width + steps < k * width
      BY <2>1, <3>1
    <3>3. /\ V(j) \in Int /\ V(k) \in Int
          /\ steps * (2 * V(j) - 1) <= 2 * (j * width)
          /\ 2 * (k * width) <= steps * (2 * V(k) + 1)
      <4> HIDE DEF V
      <4> QED
        BY <1>1
    <3> QED
      BY <3>2, <3>3, NearGrows, Zenon
  <2>2. CASE steps = width
    <3>1. \A c \in Nat : r(c) = 0 /\ d(c) = c
      BY <1>2, <2>2
    <3>2. \A c \in 0 .. steps : V(c) = c
      <4> SUFFICES ASSUME NEW c \in 0 .. steps PROVE V(c) = c
        OBVIOUS
      <4>1. c \in up => 2 * r(c) = steps
        OBVIOUS
      <4>2. r(c) = 0 /\ d(c) = c
        BY <3>1
      <4> HIDE DEF r, d
      <4> QED
        BY <4>1, <4>2
    <3> QED
      BY <3>2
  <2> QED
    BY <2>1, <2>2
<1>4. V(steps) = width
  <2>1. steps * width = width * steps
    OBVIOUS
  <2>2. r(steps) = 0 /\ d(steps) = width
    BY <1>2, <2>1
  <2>3. steps \in up => 2 * r(steps) = steps
    OBVIOUS
  <2> HIDE DEF r, d
  <2> QED
    BY <2>2, <2>3
<1>5. Spread(s, steps, width, up) = {f[k] : k \in 0 .. steps}
  BY DEF Spread
<1> HIDE DEF V
<1>6. f \in [0 .. steps -> Int] /\ \A j, k \in 0 .. steps : j < k => f[j] < f[k]
  BY <1>1, <1>3
<1>7. f[0] \in Int /\ f[0] >= s /\ f[steps] = s + width
  BY <1>1, <1>4
<1> HIDE DEF f
<1>8. /\ IsFiniteSet(Spread(s, steps, width, up))
      /\ Cardinality(Spread(s, steps, width, up)) = steps + 1
      /\ Spread(s, steps, width, up) \subseteq f[0] .. f[steps]
      /\ f[steps] \in Spread(s, steps, width, up)
  BY <1>5, <1>6, GrowingImage
<1> QED
  BY <1>7, <1>8

\* A window of _sample_window is full (reward_model.py:345-356).
LEMMA WindowShape ==
  ASSUME NEW s \in Nat, NEW e \in Nat, s <= e, maxFrames \in Int,
         NEW w \in SampleWindows(s, e)
  PROVE  FullWindow(w, s, e)
<1> DEFINE span == e - s + 1
           count == Min({maxFrames, span})
           ties == {k \in 0 .. count - 1 : 2 * ((k * (span - 1)) % (count - 1)) = count - 1}
<1>1. span \in Nat \ {0}
  OBVIOUS
<1>2. count \in Int /\ count <= span /\ Max({1, count}) = IF 1 >= count THEN 1 ELSE count
  <2>1. count = IF maxFrames <= span THEN maxFrames ELSE span
    BY <1>1, TwoNumbers
  <2> HIDE DEF span, count
  <2>2. count \in Int /\ count <= span
    BY <1>1, <2>1
  <2> QED
    BY <2>2, TwoNumbers
<1>3. IF count <= 1 THEN w = {e}
      ELSE \E up \in SUBSET ties : w = Spread(s, count - 1, span - 1, up) \cup {e}
  BY DEF SampleWindows
<1>4. CASE count <= 1
  <2>1. w = {e} /\ Cardinality(w) = 1
    BY <1>3, <1>4, FS_Singleton
  <2>2. Max({1, count}) = 1
    <3> HIDE DEF count
    <3> QED
      BY <1>2, <1>4
  <2>3. e \in s .. e
    OBVIOUS
  <2> QED
    BY <2>1, <2>2, <2>3 DEF FullWindow
<1>5. CASE ~(count <= 1)
  <2>1. PICK up \in SUBSET ties : w = Spread(s, count - 1, span - 1, up) \cup {e}
    BY <1>3, <1>5
  <2>2. \A k \in up : 2 * ((k * (span - 1)) % (count - 1)) = count - 1
    BY <2>1
  <2>3. s + (span - 1) = e
    OBVIOUS
  <2>4. count - 1 \in Nat \ {0} /\ span - 1 \in Nat /\ count - 1 <= span - 1
        /\ count - 1 + 1 = count
    <3> HIDE DEF span, count
    <3> QED
      BY <1>1, <1>2, <1>5
  <2> HIDE DEF span, count, ties
  <2>5. /\ Cardinality(Spread(s, count - 1, span - 1, up)) = count
        /\ Spread(s, count - 1, span - 1, up) \subseteq s .. e
        /\ e \in Spread(s, count - 1, span - 1, up)
    BY <2>2, <2>3, <2>4, SpreadShape
  <2>6. w = Spread(s, count - 1, span - 1, up)
    BY <2>1, <2>5
  <2>7. Max({1, count}) = count
    BY <1>2, <1>5
  <2> QED
    BY <2>5, <2>6, <2>7 DEF FullWindow, count, span
<1> QED
  BY <1>4, <1>5

-----------------------------------------------------------------------------
(* The run: one step per action. *)

\* What the metadata and the hyperparameters give.
LEMMA Known ==
  ASSUME TypeOK
  PROVE  /\ maxFrames \in Int /\ curvePoints \in Int
         /\ \A e \in All : /\ From(e) \in Nat /\ To(e) \in Nat /\ Frames(e) \in Nat
                           /\ From(e) + Frames(e) = To(e)
<1>1. maxFrames \in Int /\ curvePoints \in Int
  BY RewardAssumption DEF TypeOK
<1>2. Episodes \in Nat /\ Episodes * MaxLength \in Nat /\ 0 .. MaxLength \subseteq Nat
  BY RewardAssumption
<1>3. /\ index \in [0 .. Episodes -> Nat]
      /\ \A e \in All : index[e + 1] - index[e] \in Nat
  BY <1>2 DEF TypeOK, Indexes
<1>4. \A e \in All : index[e] \in Nat /\ index[e + 1] \in Nat
  BY <1>2, <1>3 DEF All
<1>5. \A e \in All : index[e] + (index[e + 1] - index[e]) = index[e + 1]
  BY <1>4
<1> QED
  BY <1>1, <1>3, <1>4, <1>5 DEF From, To, Frames

\* Nothing has been scored yet.
LEMMA NothingScored == Init => IInv
<1> SUFFICES ASSUME Init PROVE IInv
  OBVIOUS
<1>1. TypeOK
  BY RewardAssumption DEF Init, TypeOK
<1>2. EpisodeKnown /\ CurveSoFar /\ WindowFits /\ CurveCoversEpisode
  BY DEF Init, EpisodeKnown, CurveSoFar, WindowFits, CurveCoversEpisode
<1> QED
  BY <1>1, <1>2 DEF IInv

\* The ends of the loop, and a failure: the episodes scored stay what they are.
LEMMA QuietSteps ==
  ASSUME IInv, Resolve \/ WriteRewards \/ ScoreFails
  PROVE  IInv'
<1> USE DEF IInv
<1>1. /\ UNCHANGED <<fixed, i, endpoints, window, curve, rewards>>
      /\ pc' \in {"next", "failed", "saved"}
  BY DEF Resolve, WriteRewards, ScoreFails
<1>2. /\ episodes' \in Seq(Int) /\ i \in 1 .. Len(episodes') + 1
      /\ pc' = "next" => \A k \in DOMAIN episodes' : episodes'[k] \in All
  <2>1. CASE Resolve /\ episodes = <<>>
    <3>1. episodes' = [k \in 1 .. Episodes |-> k - 1] /\ Episodes \in Nat
      BY <2>1, RewardAssumption DEF Resolve
    <3>2. episodes' \in Seq(Int) /\ Len(episodes') = Episodes /\ DOMAIN episodes' = 1 .. Episodes
      BY <3>1
    <3>3. i = 1
      BY <2>1 DEF TypeOK
    <3> QED
      BY <3>1, <3>2, <3>3 DEF All
  <2>2. CASE Resolve /\ episodes # <<>>
    BY <2>2 DEF Resolve, TypeOK
  <2>3. CASE WriteRewards \/ ScoreFails
    BY <2>3 DEF WriteRewards, ScoreFails, TypeOK
  <2> QED
    BY <2>1, <2>2, <2>3
<1>3. TypeOK'
  BY <1>1, <1>2 DEF TypeOK, fixed
<1>4. EpisodeKnown' /\ CurveSoFar' /\ WindowFits'
  BY <1>1, <1>2 DEF EpisodeKnown, CurveSoFar, WindowFits
<1>5. CurveCoversEpisode'
  BY <1>1 DEF CurveCoversEpisode, Covers, Grows, From, To, Frames, fixed
<1> QED
  BY <1>3, <1>4, <1>5

\* The head of an episode: all ends of its prefixes are still to be scored.
LEMMA EpisodeStep ==
  ASSUME IInv, NextEpisode
  PROVE  IInv'
<1> USE DEF IInv
<1> DEFINE e == episodes[i]
<1>1. /\ i \in DOMAIN episodes /\ e \in All
      /\ UNCHANGED <<fixed, episodes, i, window, rewards>> /\ curve' = <<>>
  BY DEF NextEpisode, TypeOK, EpisodeKnown
<1>2. From(e) \in Nat /\ To(e) \in Nat /\ Frames(e) \in Nat /\ From(e) + Frames(e) = To(e)
  BY <1>1, Known
<1>3. curvePoints \in Int
  BY Known
<1>4. UNCHANGED <<From(e), To(e), Frames(e)>> /\ PointCount(Frames(e))' = PointCount(Frames(e))
  BY <1>1 DEF From, To, Frames, PointCount, fixed
<1>5. CurveCoversEpisode'
  BY <1>1 DEF CurveCoversEpisode, Covers, Grows, From, To, Frames, fixed
<1>6. CASE Frames(e) = 0
  <2>1. pc' = "report" /\ endpoints' = {}
    BY <1>6 DEF NextEpisode
  <2>2. TypeOK'
    BY <1>1, <2>1 DEF TypeOK, fixed
  <2>3. EpisodeKnown' /\ WindowFits'
    BY <1>1, <2>1 DEF NextEpisode, EpisodeKnown, WindowFits
  <2>4. CurveSoFar'
    BY <1>1, <1>4, <1>6, <2>1 DEF CurveSoFar, Covers
  <2> QED
    BY <1>5, <2>2, <2>3, <2>4
<1>7. CASE Frames(e) # 0
  <2>1. pc' = "score" /\ endpoints' = Endpoints(From(e), Frames(e))
    BY <1>7 DEF NextEpisode
  <2>2. /\ IsFiniteSet(endpoints') /\ Cardinality(endpoints') = PointCount(Frames(e))
        /\ endpoints' \subseteq From(e) .. From(e) + Frames(e) - 1
        /\ From(e) + Frames(e) - 1 \in endpoints'
    BY <1>2, <1>3, <1>7, <2>1, EndpointsShape
  <2>3. endpoints' \subseteq From(e) .. To(e) - 1 /\ To(e) - 1 \in endpoints'
    BY <1>2, <2>2
  <2>4. TypeOK'
    <3>1. endpoints' \subseteq Nat
      BY <1>2, <2>3
    <3> QED
      BY <1>1, <2>1, <3>1 DEF TypeOK, fixed
  <2>5. EpisodeKnown' /\ WindowFits'
    BY <1>1, <2>1 DEF NextEpisode, EpisodeKnown, WindowFits
  <2>6. Len(curve') + Cardinality(endpoints') = PointCount(Frames(e)) /\ Len(curve') = 0
    <3>1. PointCount(Frames(e)) \in Nat
      BY <1>2, <1>3, <1>7, PointsBounded
    <3> QED
      BY <1>1, <2>2, <3>1
  <2>7. CurveSoFar'
    <3>1. Grows(curve') /\ \A a \in 1 .. Len(curve'), f \in endpoints' : curve'[a] < f
      BY <2>6 DEF Grows
    <3>2. e' = e /\ Frames(e)' > 0
      BY <1>1, <1>2, <1>4, <1>7
    <3> HIDE DEF e
    <3> QED
      BY <1>4, <2>1, <2>2, <2>3, <2>6, <3>1, <3>2 DEF CurveSoFar, e
  <2> QED
    BY <1>5, <2>4, <2>5, <2>7
<1> QED
  BY <1>6, <1>7

\* A point of the curve: it comes after those before it, and after the last one the curve
\* is complete.
LEMMA ScoreStep ==
  ASSUME IInv, ScoreWindow
  PROVE  IInv'
<1> USE DEF IInv
<1> DEFINE ep == episodes[i]
<1>1. /\ pc = "score" /\ ep \in All
      /\ UNCHANGED <<fixed, episodes, i, rewards>>
      /\ pc' = IF endpoints' = {} THEN "report" ELSE "score"
  BY DEF ScoreWindow, EpisodeKnown
<1>2. PICK e \in endpoints : /\ \A f \in endpoints : e <= f
                            /\ window' \in SampleWindows(From(ep), e)
                            /\ curve' = Append(curve, e)
                            /\ endpoints' = endpoints \ {e}
  BY DEF ScoreWindow
<1>3. /\ Frames(ep) \in Nat \ {0} /\ IsFiniteSet(endpoints)
      /\ endpoints \subseteq From(ep) .. To(ep) - 1 /\ To(ep) - 1 \in endpoints
      /\ Len(curve) + Cardinality(endpoints) = PointCount(Frames(ep))
      /\ Grows(curve) /\ \A a \in 1 .. Len(curve), f \in endpoints : curve[a] < f
  BY <1>1, Known DEF CurveSoFar
<1>4. From(ep) \in Nat /\ To(ep) \in Nat /\ maxFrames \in Int
  BY <1>1, Known
<1>5. e \in Nat /\ From(ep) <= e
  BY <1>2, <1>3, <1>4
<1>6. UNCHANGED <<From(ep), To(ep), Frames(ep), PointCount(Frames(ep)), ep>>
  BY <1>1 DEF From, To, Frames, PointCount, fixed
<1>7. /\ curve \in Seq(Nat) /\ curve' \in Seq(Nat) /\ Len(curve') = Len(curve) + 1
      /\ curve'[Len(curve')] = e /\ \A a \in 1 .. Len(curve) : curve'[a] = curve[a]
  BY <1>2, <1>5 DEF TypeOK
<1>8. FullWindow(window', From(ep), e)
  BY <1>2, <1>4, <1>5, WindowShape
<1>9. TypeOK'
  <2>1. window' \subseteq Nat
    BY <1>4, <1>5, <1>8 DEF FullWindow
  <2>2. endpoints' \subseteq Nat
    BY <1>2 DEF TypeOK
  <2> QED
    BY <1>1, <1>7, <2>1, <2>2 DEF TypeOK, fixed
<1>10. EpisodeKnown'
  BY <1>1 DEF EpisodeKnown
<1>11. WindowFits'
  <2>1. FullWindow(window, From(ep), e)'
    BY <1>1, <1>6, <1>8 DEF FullWindow, fixed
  <2> QED
    BY <1>1, <1>6, <1>7, <2>1 DEF WindowFits
<1>12. CurveCoversEpisode'
  BY <1>1 DEF CurveCoversEpisode, Covers, Grows, From, To, Frames, fixed
<1>13. /\ IsFiniteSet(endpoints') /\ Cardinality(endpoints) \in Nat
       /\ Cardinality(endpoints') = Cardinality(endpoints) - 1
  BY <1>2, <1>3, FS_RemoveElement, FS_CardinalityType
<1>14. Len(curve') + Cardinality(endpoints') = PointCount(Frames(ep))
  <2>1. Len(curve) \in Nat
    BY <1>7
  <2> QED
    BY <1>3, <1>7, <1>13, <2>1
<1>15. Grows(curve')
  <2> SUFFICES ASSUME NEW a \in 1 .. Len(curve) + 1, NEW b \in 1 .. Len(curve) + 1, a < b
               PROVE  curve'[a] < curve'[b]
    BY <1>7 DEF Grows
  <2>1. a \in 1 .. Len(curve) /\ Len(curve) \in Nat
    BY <1>7
  <2>2. CASE b = Len(curve) + 1
    BY <1>2, <1>3, <1>7, <2>1, <2>2
  <2>3. CASE b \in 1 .. Len(curve)
    BY <1>3, <1>7, <2>1, <2>3 DEF Grows
  <2> QED
    BY <2>1, <2>2, <2>3
<1>16. \A f \in endpoints' : e < f
  BY <1>2, <1>3, <1>4
<1>17. \A a \in 1 .. Len(curve'), f \in endpoints' : curve'[a] < f
  <2> SUFFICES ASSUME NEW a \in 1 .. Len(curve) + 1, NEW f \in endpoints'
               PROVE  curve'[a] < f
    BY <1>7
  <2>1. CASE a = Len(curve) + 1
    BY <1>7, <1>16, <2>1
  <2>2. CASE a \in 1 .. Len(curve)
    BY <1>2, <1>3, <1>7, <2>2
  <2> QED
    BY <1>7, <2>1, <2>2
<1>18. IF endpoints' = {} THEN e = To(ep) - 1 ELSE To(ep) - 1 \in endpoints'
  <2>1. CASE e = To(ep) - 1
    <3>1. endpoints' = {}
      <4> SUFFICES ASSUME NEW f \in endpoints' PROVE FALSE
        OBVIOUS
      <4>1. f \in From(ep) .. To(ep) - 1 /\ e < f
        BY <1>2, <1>3, <1>16
      <4> QED
        BY <1>4, <2>1, <4>1
    <3> QED
      BY <2>1, <3>1
  <2>2. CASE e # To(ep) - 1
    BY <1>2, <1>3, <2>2
  <2> QED
    BY <2>1, <2>2
<1>19. CurveSoFar'
  <2>1. CASE endpoints' = {}
    <3>1. Len(curve') = PointCount(Frames(ep))
      BY <1>7, <1>14, <2>1, FS_EmptySet
    <3>2. Covers(curve, ep)'
      <4>1. Len(curve') = Max({1, Min({curvePoints, Frames(ep)})})
        BY <3>1 DEF PointCount
      <4>2. curvePoints' = curvePoints /\ Grows(curve)' /\ curve'[Len(curve')] = To(ep) - 1
        BY <1>1, <1>7, <1>15, <1>18, <2>1 DEF fixed, Grows
      <4> HIDE DEF ep
      <4> QED
        BY <1>3, <1>6, <4>1, <4>2 DEF Covers
    <3> QED
      BY <1>1, <1>6, <2>1, <3>2 DEF CurveSoFar
  <2>2. CASE endpoints' # {}
    <3>1. /\ pc' = "score" /\ Frames(ep) > 0
          /\ endpoints' \subseteq From(ep) .. To(ep) - 1 /\ To(ep) - 1 \in endpoints'
      <4> HIDE DEF ep
      <4>1. pc' = "score"
        BY <1>1, <2>2
      <4>2. Frames(ep) > 0
        BY <1>2, <1>3
      <4>3. endpoints' \subseteq From(ep) .. To(ep) - 1
        BY <1>2, <1>3
      <4>4. To(ep) - 1 \in endpoints'
        BY <1>18, <2>2
      <4> QED
        BY <4>1, <4>2, <4>3, <4>4
    <3>2. Grows(curve)'
      BY <1>15 DEF Grows
    <3> HIDE DEF ep
    <3>3. ep' = episodes'[i']
      BY DEF ep
    <3> QED
      BY <1>6, <1>13, <1>14, <1>17, <3>1, <3>2, <3>3 DEF CurveSoFar
  <2> QED
    BY <2>1, <2>2
<1> QED
  BY <1>9, <1>10, <1>11, <1>12, <1>19

\* The record of an episode.
LEMMA ReportStep ==
  ASSUME IInv, ReportEpisode
  PROVE  IInv'
<1> USE DEF IInv
<1> DEFINE record == [episode |-> episodes[i], curve |-> curve]
<1>1. /\ UNCHANGED <<fixed, episodes, endpoints, window, curve>>
      /\ rewards' = Append(rewards, record)
      /\ i \in DOMAIN episodes /\ episodes[i] \in All /\ Covers(curve, episodes[i])
      /\ \/ pc' = "next" /\ i' = i + 1
         \/ pc' = "cancelled" /\ i' = i
  BY DEF ReportEpisode, EpisodeKnown, CurveSoFar
<1>2. record \in [episode : All, curve : Seq(Nat)]
  BY <1>1 DEF TypeOK
<1>3. TypeOK'
  <2>1. rewards' \in Seq([episode : All, curve : Seq(Nat)])
    <3> HIDE DEF record
    <3> QED
      BY <1>1, <1>2 DEF TypeOK
  <2>2. i' \in 1 .. Len(episodes') + 1
    BY <1>1 DEF TypeOK
  <2> QED
    BY <1>1, <2>1, <2>2 DEF TypeOK, fixed
<1>4. EpisodeKnown' /\ CurveSoFar' /\ WindowFits'
  BY <1>1 DEF ReportEpisode, EpisodeKnown, CurveSoFar, WindowFits
<1>5. \A k \in 1 .. Len(rewards') : Covers(rewards'[k].curve, rewards'[k].episode)
  <2> SUFFICES ASSUME NEW k \in 1 .. Len(rewards')
               PROVE  Covers(rewards'[k].curve, rewards'[k].episode)
    OBVIOUS
  <2>1. rewards \in Seq([episode : All, curve : Seq(Nat)])
    BY DEF TypeOK
  <2>2. CASE k \in 1 .. Len(rewards)
    <3>1. rewards'[k] = rewards[k]
      <4> HIDE DEF record
      <4> QED
        BY <1>1, <1>2, <2>1, <2>2
    <3> QED
      BY <2>2, <3>1 DEF CurveCoversEpisode
  <2>3. CASE k = Len(rewards) + 1
    <3>1. rewards'[k] = record
      <4> HIDE DEF record
      <4> QED
        BY <1>1, <1>2, <2>1, <2>3
    <3> QED
      BY <1>1, <3>1
  <2>4. Len(rewards') = Len(rewards) + 1
    <3> HIDE DEF record
    <3> QED
      BY <1>1, <1>2, <2>1
  <2> QED
    BY <2>1, <2>2, <2>3, <2>4
<1>6. CurveCoversEpisode'
  BY <1>1, <1>5 DEF CurveCoversEpisode, Covers, Grows, From, To, Frames, fixed
<1> QED
  BY <1>3, <1>4, <1>6

-----------------------------------------------------------------------------
\* The invariant of the reward-model runner holds in every reachable state.
THEOREM RewardInvariant == Spec => []IInv
<1>1. IInv /\ UNCHANGED vars => IInv'
  BY DEF IInv, TypeOK, EpisodeKnown, CurveSoFar, WindowFits, FullWindow, CurveCoversEpisode,
     Covers, Grows, PointCount, From, To, Frames, vars, fixed
<1>2. IInv /\ Next => IInv'
  BY QuietSteps, EpisodeStep, ScoreStep, ReportStep DEF Next
<1> QED
  BY <1>1, <1>2, NothingScored, PTL DEF Spec

\* reward_model.py:345-356: a score is read from a full window that ends at its endpoint,
\* for any episode, any max_frames and whichever way the ties of the step go.
THEOREM WindowFitsHolds == Spec => []WindowFits
<1>1. IInv => WindowFits
  BY DEF IInv
<1> QED
  BY <1>1, RewardInvariant, PTL

\* reward_model.py:126 and 313-317: the curve of each episode has a point for every prefix,
\* and the score is read at the last frame, for any length and any number of points.
THEOREM CurveCoversEpisodeHolds == Spec => []CurveCoversEpisode
<1>1. IInv => CurveCoversEpisode
  BY DEF IInv
<1> QED
  BY <1>1, RewardInvariant, PTL
=============================================================================
