--------------------------- MODULE CallbackProofs ---------------------------
(***************************************************************************)
(* Proofs about the callback client (module CallbackClient) for any jobs,  *)
(* threads and number of attempts: no claimed job is lost track of, and    *)
(* the retry loop of _post implements the abstract remote call.            *)
(***************************************************************************)
EXTENDS CallbackClient, FiniteSetTheorems, TLAPS

-----------------------------------------------------------------------------
(* Lemmas about the calls. *)

\* The requests that may arrive late can be counted.
LEMMA LateIsCounted ==
  ASSUME NEW S, IsFiniteSet(S), NEW j
  PROVE  IsFiniteSet(LateOf(S, j)) /\ Cardinality(LateOf(S, j)) \in Nat
<1>1. LateOf(S, j) \subseteq S
  BY DEF LateOf
<1> QED
  BY <1>1, FS_Subset, FS_CardinalityType

\* A step of one call leaves the other calls alone, and whose verdict it is.
LEMMA CallMoves ==
  ASSUME TypeOK, VerdictsKnown, NEW t \in Threads, NEW n, NEW phase, NEW reply,
         Reaches(t, n, phase, reply)
  PROVE  /\ \A u \in Threads \ {t} : call'[u] = call[u]
         /\ call'[t] = [op |-> call[t].op, job |-> call[t].job, attempt |-> n,
                        phase |-> phase, reply |-> reply]
         /\ \A u \in Threads, j \in Jobs : IsVerdictOf(call'[u], j) <=> IsVerdictOf(call[u], j)
         /\ \A j \in Jobs : ~IsVerdictOf(call[t], j) => (Sent(call', j) <=> Sent(call, j))
<1>1. /\ \A u \in Threads \ {t} : call'[u] = call[u]
      /\ call'[t] = [op |-> call[t].op, job |-> call[t].job, attempt |-> n,
                     phase |-> phase, reply |-> reply]
  BY DEF Reaches, TypeOK
<1>2. \A u \in Threads, j \in Jobs : IsVerdictOf(call'[u], j) <=> IsVerdictOf(call[u], j)
  BY <1>1 DEF IsVerdictOf
<1>3. \A j \in Jobs : Sent(call', j) <=>
         \E u \in Threads : IsVerdictOf(call[u], j) /\ call'[u].phase = "sent"
  BY <1>2 DEF Sent
<1>4. ASSUME NEW j \in Jobs, ~IsVerdictOf(call[t], j)
      PROVE  Sent(call', j) <=> Sent(call, j)
  BY <1>1, <1>3, <1>4 DEF Sent
<1> QED
  BY <1>1, <1>2, <1>4

\* A request that is given up may be one more that arrives late, if it was on its way.
LEMMA GivenUpMayArrive ==
  ASSUME TypeOK, IsFiniteSet(late), NEW t \in Threads, MayArriveLate(t)
  PROVE  /\ IsFiniteSet(late')
         /\ \A j \in Jobs :
               /\ Cardinality(LateOf(late', j)) \in Nat
               /\ LateOf(late', j) = LateOf(late, j) \/ IsVerdictOf(call[t], j)
               /\ Cardinality(LateOf(late', j)) <= Cardinality(LateOf(late, j))
                     + (IF IsVerdictOf(call[t], j) /\ call[t].phase = "sent" THEN 1 ELSE 0)
<1>1. CASE late' = late
  <2>1. \A j \in Jobs : Cardinality(LateOf(late, j)) \in Nat
    BY LateIsCounted
  <2> QED
    BY <1>1, <2>1
<1>2. CASE /\ call[t].phase = "sent" /\ call[t].op \in Verdicts
           /\ late' = late \cup {[op |-> call[t].op, job |-> call[t].job,
                                  attempt |-> call[t].attempt]}
  <2> DEFINE r == [op |-> call[t].op, job |-> call[t].job, attempt |-> call[t].attempt]
  <2>1. IsFiniteSet(late')
    BY <1>2, FS_AddElement
  <2>2. SUFFICES ASSUME NEW j \in Jobs
                 PROVE  /\ Cardinality(LateOf(late', j)) \in Nat
                        /\ LateOf(late', j) = LateOf(late, j) \/ IsVerdictOf(call[t], j)
                        /\ Cardinality(LateOf(late', j)) <= Cardinality(LateOf(late, j))
                              + (IF IsVerdictOf(call[t], j) THEN 1 ELSE 0)
    BY <1>2, <2>1
  <2>3. CASE call[t].job = j
    <3>1. LateOf(late', j) = LateOf(late, j) \cup {r}
      BY <1>2, <2>3 DEF LateOf
    <3>2. IsVerdictOf(call[t], j)
      BY <1>2, <2>3 DEF IsVerdictOf
    <3> HIDE DEF r
    <3>3. /\ IsFiniteSet(LateOf(late, j) \cup {r})
          /\ Cardinality(LateOf(late, j) \cup {r}) \in {Cardinality(LateOf(late, j)), Cardinality(LateOf(late, j)) + 1}
      BY LateIsCounted, FS_AddElement
    <3> QED
      BY <3>1, <3>2, <3>3, LateIsCounted
  <2>4. CASE call[t].job # j
    <3>1. LateOf(late', j) = LateOf(late, j)
      BY <1>2, <2>4 DEF LateOf
    <3> QED
      BY <3>1, LateIsCounted DEF IsVerdictOf
  <2> QED
    BY <2>3, <2>4
<1> QED
  BY <1>1, <1>2 DEF MayArriveLate
-----------------------------------------------------------------------------
(* The verdicts. *)

\* An attempt that moves on, and what it may do to the verdict it posts.
LEMMA VerdictsKept ==
  ASSUME TypeOK, VerdictsKnown, NEW t \in Threads, NEW n \in 1 .. MaxRetries, NEW phase, NEW reply,
         Reaches(t, n, phase, reply), InFlight(t), IsFiniteSet(late'),
         \A j \in Jobs : effects'[j] \in Nat,
         \A j \in Jobs : ~IsVerdictOf(call[t], j) =>
            /\ tries'[j] = tries[j] /\ effects'[j] = effects[j] /\ outcome'[j] = outcome[j]
            /\ LateOf(late', j) = LateOf(late, j),
         \A j \in Jobs : IsVerdictOf(call[t], j) =>
            /\ tries'[j] # 0 /\ outcome'[j] # "none"
            /\ effects'[j] + Cardinality(LateOf(late', j)) + (IF phase = "sent" THEN 1 ELSE 0) <= tries'[j]
            /\ phase \in {"sent", "served"} => outcome'[j] = "busy" /\ tries'[j] = n
            /\ phase = "served" => effects'[j] > 0
  PROVE  VerdictsKnown'
<1>1. /\ \A u \in Threads \ {t} : call'[u] = call[u]
      /\ call'[t].phase = phase /\ call'[t].attempt = n
      /\ \A u \in Threads, j \in Jobs : IsVerdictOf(call'[u], j) <=> IsVerdictOf(call[u], j)
      /\ \A j \in Jobs : IsVerdictOf(call[t], j) => (Sent(call', j) <=> phase = "sent")
      /\ \A j \in Jobs : ~IsVerdictOf(call[t], j) => (Sent(call', j) <=> Sent(call, j))
  <2>1. call'[t] = [op |-> call[t].op, job |-> call[t].job, attempt |-> n,
                    phase |-> phase, reply |-> reply]
    BY CallMoves
  <2>2. call'[t].phase = phase /\ call'[t].attempt = n
    BY <2>1
  <2>3. \A u \in Threads \ {t} : call'[u] = call[u]
    BY CallMoves
  <2>4. \A u \in Threads, j \in Jobs : IsVerdictOf(call'[u], j) <=> IsVerdictOf(call[u], j)
    BY CallMoves
  <2>5. ASSUME NEW j \in Jobs, IsVerdictOf(call[t], j)
        PROVE  Sent(call', j) <=> phase = "sent"
    <3>1. \A u \in Threads : IsVerdictOf(call'[u], j) => u = t
      BY <2>4, <2>5 DEF VerdictsKnown
    <3> QED
      BY <2>2, <2>4, <2>5, <3>1 DEF Sent
  <2>6. \A j \in Jobs : ~IsVerdictOf(call[t], j) => (Sent(call', j) <=> Sent(call, j))
    BY CallMoves
  <2> QED
    BY <2>2, <2>3, <2>4, <2>5, <2>6
<1>2. \A u, v \in Threads, j \in Jobs :
         IsVerdictOf(call'[u], j) /\ IsVerdictOf(call'[v], j) => u = v
  BY <1>1 DEF VerdictsKnown
<1>3. ASSUME NEW j \in Jobs
      PROVE  /\ outcome'[j] = "none" <=> tries'[j] = 0
             /\ tries'[j] = 0 => LateOf(late', j) = {} /\ \A u \in Threads : ~IsVerdictOf(call'[u], j)
  <2>1. CASE IsVerdictOf(call[t], j)
    BY <2>1
  <2>2. CASE ~IsVerdictOf(call[t], j)
    <3>1. /\ outcome[j] = "none" <=> tries[j] = 0
          /\ tries[j] = 0 => LateOf(late, j) = {} /\ \A u \in Threads : ~IsVerdictOf(call[u], j)
      BY DEF VerdictsKnown
    <3> QED
      BY <1>1, <2>2, <3>1
  <2> QED
    BY <2>1, <2>2
<1>4. ASSUME NEW u \in Threads, NEW j \in Jobs, IsVerdictOf(call'[u], j)
      PROVE  /\ call'[u].phase \in {"sent", "served"} =>
                   outcome'[j] = "busy" /\ tries'[j] = call'[u].attempt
             /\ call'[u].phase = "served" => effects'[j] > 0
  <2>1. CASE u = t
    BY <1>1, <1>4, <2>1
  <2>2. CASE u # t
    <3>1. ~IsVerdictOf(call[t], j)
      BY <1>1, <1>4, <2>2 DEF VerdictsKnown
    <3> QED
      BY <1>1, <1>4, <2>2, <3>1 DEF VerdictsKnown, InFlight
  <2> QED
    BY <2>1, <2>2
<1>5. ASSUME NEW j \in Jobs
      PROVE  effects'[j] + Cardinality(LateOf(late', j)) + (IF Sent(call', j) THEN 1 ELSE 0) <= tries'[j]
  <2>1. CASE IsVerdictOf(call[t], j)
    BY <1>1, <2>1
  <2>2. CASE ~IsVerdictOf(call[t], j)
    <3>1. effects[j] + Outstanding(j) <= tries[j]
      BY DEF VerdictsKnown, EffectsWithinTries
    <3>2. Cardinality(LateOf(late, j)) \in Nat /\ effects[j] \in Nat /\ tries[j] \in Nat
      BY LateIsCounted, MaxRetriesAssumption DEF VerdictsKnown, TypeOK
    <3> QED
      BY <1>1, <2>2, <3>1, <3>2 DEF Outstanding
  <2> QED
    BY <2>1, <2>2
<1>6. EffectsWithinTries'
  <2>1. \A j \in Jobs : Cardinality(LateOf(late', j)) \in Nat
    BY LateIsCounted
  <2> QED
    BY <1>5, <2>1 DEF EffectsWithinTries, Outstanding
<1> QED
  BY <1>2, <1>3, <1>4, <1>6 DEF VerdictsKnown, InFlight

\* What is known of the verdict that a call in flight is posting.
LEMMA VerdictInFlight ==
  ASSUME TypeOK, VerdictsKnown, NEW t \in Threads, InFlight(t), NEW j \in Jobs, IsVerdictOf(call[t], j)
  PROVE  /\ outcome[j] = "busy" /\ tries[j] = call[t].attempt /\ tries[j] \in 1 .. MaxRetries
         /\ effects[j] \in Nat /\ Cardinality(LateOf(late, j)) \in Nat
         /\ call[t].phase = "served" => effects[j] > 0
         /\ effects[j] + Cardinality(LateOf(late, j)) + (IF call[t].phase = "sent" THEN 1 ELSE 0) <= tries[j]
<1>1. /\ outcome[j] = "busy" /\ tries[j] = call[t].attempt
      /\ call[t].phase = "served" => effects[j] > 0
      /\ effects[j] + Outstanding(j) <= tries[j]
  BY DEF VerdictsKnown, EffectsWithinTries
<1>2. call[t].attempt \in 1 .. MaxRetries /\ effects[j] \in Nat
  BY MaxRetriesAssumption DEF TypeOK, Calls
<1>3. Cardinality(LateOf(late, j)) \in Nat
  BY LateIsCounted DEF VerdictsKnown
<1>4. call[t].phase = "sent" => Sent(call, j)
  BY DEF Sent
<1> QED
  BY <1>1, <1>2, <1>3, <1>4, MaxRetriesAssumption DEF Outstanding

LEMMA HandleVerdicts ==
  ASSUME TypeOK, VerdictsKnown, NEW t \in Threads, Handle(t)
  PROVE  /\ VerdictsKnown'
         /\ \A j \in Jobs : IsVerdictOf(call[t], j) => effects[j] + 1 <= tries[j]
<1>1. PICK reply \in Replies : Reaches(t, call[t].attempt, "served", reply)
  BY DEF Handle, ServerHandles
<1>2. /\ InFlight(t) /\ call[t].phase = "sent" /\ call[t].attempt \in 1 .. MaxRetries
      /\ UNCHANGED <<late, tries, outcome>> /\ effects' = Counted(effects, t)
  BY DEF Handle, ServerHandles, InFlight, TypeOK, Calls, backlogVars
<1>3. \A j \in Jobs : /\ effects[j] \in Nat
                      /\ effects'[j] = effects[j] + (IF IsVerdictOf(call[t], j) THEN 1 ELSE 0)
                      /\ LateOf(late', j) = LateOf(late, j)
  BY <1>2, MaxRetriesAssumption DEF TypeOK, Counted, LateOf
<1>4. ASSUME NEW j \in Jobs, IsVerdictOf(call[t], j)
      PROVE  /\ tries'[j] # 0 /\ outcome'[j] # "none" /\ effects[j] + 1 <= tries[j]
             /\ effects'[j] + Cardinality(LateOf(late', j)) + 0 <= tries'[j]
             /\ outcome'[j] = "busy" /\ tries'[j] = call[t].attempt
             /\ effects'[j] > 0
  BY <1>2, <1>3, <1>4, VerdictInFlight
<1>5. IsFiniteSet(late')
  BY <1>2 DEF VerdictsKnown
<1>6. \A j \in Jobs : ~IsVerdictOf(call[t], j) => effects'[j] = effects[j]
  BY <1>3
<1>7. VerdictsKnown'
  BY <1>1, <1>2, <1>3, <1>4, <1>5, <1>6, VerdictsKept
<1> QED
  BY <1>4, <1>7

LEMMA AnswerVerdicts ==
  ASSUME TypeOK, VerdictsKnown, NEW t \in Threads, Answer(t)
  PROVE  VerdictsKnown'
<1>1. /\ Reaches(t, call[t].attempt, "done", call[t].reply)
      /\ InFlight(t) /\ call[t].phase = "served" /\ call[t].attempt \in 1 .. MaxRetries
      /\ UNCHANGED <<late, tries, effects>> /\ outcome' = Recorded(t, "returned")
  BY DEF Answer, ReplyArrives, InFlight, TypeOK, Calls, backlogVars
<1>2. \A j \in Jobs : /\ outcome'[j] = IF IsVerdictOf(call[t], j) THEN "returned" ELSE outcome[j]
                      /\ LateOf(late', j) = LateOf(late, j)
  BY <1>1 DEF Recorded, LateOf
<1>3. ASSUME NEW j \in Jobs, IsVerdictOf(call[t], j)
      PROVE  /\ tries'[j] # 0 /\ outcome'[j] # "none"
             /\ effects'[j] + Cardinality(LateOf(late', j)) + 0 <= tries'[j]
  BY <1>1, <1>2, <1>3, VerdictInFlight
<1>4. IsFiniteSet(late') /\ \A j \in Jobs : effects'[j] \in Nat
  BY <1>1, MaxRetriesAssumption DEF VerdictsKnown, TypeOK
<1> QED
  BY <1>1, <1>2, <1>3, <1>4, VerdictsKept

LEMMA RetryVerdicts ==
  ASSUME TypeOK, VerdictsKnown, NEW t \in Threads, Retry(t)
  PROVE  VerdictsKnown'
<1>1. /\ InFlight(t) /\ MayArriveLate(t) /\ NextAttempt(t) /\ UNCHANGED effects
      /\ call[t].attempt \in 1 .. MaxRetries /\ IsFiniteSet(late)
  BY DEF Retry, RetryableError, TypeOK, Calls, VerdictsKnown
<1>2. /\ IsFiniteSet(late')
      /\ \A j \in Jobs :
            /\ Cardinality(LateOf(late', j)) \in Nat
            /\ LateOf(late', j) = LateOf(late, j) \/ IsVerdictOf(call[t], j)
            /\ Cardinality(LateOf(late', j)) <= Cardinality(LateOf(late, j))
                  + (IF IsVerdictOf(call[t], j) /\ call[t].phase = "sent" THEN 1 ELSE 0)
  BY <1>1, GivenUpMayArrive
<1>3. \A j \in Jobs : effects'[j] \in Nat
  BY <1>1, MaxRetriesAssumption DEF TypeOK
<1>4. CASE call[t].attempt < MaxRetries
  <2>1. /\ Reaches(t, call[t].attempt + 1, "sent", NoJob) /\ call[t].attempt + 1 \in 1 .. MaxRetries
        /\ UNCHANGED outcome /\ tries' = Counted(tries, t)
    BY <1>1, <1>4, MaxRetriesAssumption DEF NextAttempt, Retry
  <2>2. \A j \in Jobs : /\ tries[j] \in Nat
                        /\ tries'[j] = tries[j] + (IF IsVerdictOf(call[t], j) THEN 1 ELSE 0)
    BY <2>1, MaxRetriesAssumption DEF Counted, TypeOK
  <2>3. ASSUME NEW j \in Jobs, IsVerdictOf(call[t], j)
        PROVE  /\ tries'[j] # 0 /\ outcome'[j] # "none"
               /\ effects'[j] + Cardinality(LateOf(late', j)) + 1 <= tries'[j]
               /\ outcome'[j] = "busy" /\ tries'[j] = call[t].attempt + 1
    BY <1>1, <1>2, <2>1, <2>2, <2>3, VerdictInFlight
  <2>4. \A j \in Jobs : ~IsVerdictOf(call[t], j) => tries'[j] = tries[j]
    BY <2>2
  <2> QED
    BY <1>1, <1>2, <1>3, <2>1, <2>3, <2>4, VerdictsKept
<1>5. CASE ~(call[t].attempt < MaxRetries)
  <2>1. /\ Reaches(t, call[t].attempt, "raised", NoJob)
        /\ UNCHANGED tries /\ outcome' = Recorded(t, "raised")
    BY <1>1, <1>5 DEF NextAttempt, Retry
  <2>2. \A j \in Jobs : outcome'[j] = IF IsVerdictOf(call[t], j) THEN "raised" ELSE outcome[j]
    BY <2>1 DEF Recorded
  <2>3. ASSUME NEW j \in Jobs, IsVerdictOf(call[t], j)
        PROVE  /\ tries'[j] # 0 /\ outcome'[j] # "none"
               /\ effects'[j] + Cardinality(LateOf(late', j)) + 0 <= tries'[j]
    BY <1>1, <1>2, <2>1, <2>2, <2>3, VerdictInFlight
  <2> QED
    BY <1>1, <1>2, <1>3, <2>1, <2>2, <2>3, VerdictsKept
<1> QED
  BY <1>4, <1>5

LEMMA GiveUpVerdicts ==
  ASSUME TypeOK, VerdictsKnown, NEW t \in Threads, GiveUpAtOnce(t)
  PROVE  VerdictsKnown'
<1>1. /\ InFlight(t) /\ MayArriveLate(t) /\ Reaches(t, call[t].attempt, "raised", NoJob)
      /\ UNCHANGED <<tries, effects>> /\ outcome' = Recorded(t, "raised")
      /\ call[t].attempt \in 1 .. MaxRetries /\ IsFiniteSet(late)
  BY DEF GiveUpAtOnce, FatalError, TypeOK, Calls, VerdictsKnown
<1>2. /\ IsFiniteSet(late')
      /\ \A j \in Jobs :
            /\ Cardinality(LateOf(late', j)) \in Nat
            /\ LateOf(late', j) = LateOf(late, j) \/ IsVerdictOf(call[t], j)
            /\ Cardinality(LateOf(late', j)) <= Cardinality(LateOf(late, j))
                  + (IF IsVerdictOf(call[t], j) /\ call[t].phase = "sent" THEN 1 ELSE 0)
  BY <1>1, GivenUpMayArrive
<1>3. \A j \in Jobs : outcome'[j] = IF IsVerdictOf(call[t], j) THEN "raised" ELSE outcome[j]
  BY <1>1 DEF Recorded
<1>4. ASSUME NEW j \in Jobs, IsVerdictOf(call[t], j)
      PROVE  /\ tries'[j] # 0 /\ outcome'[j] # "none"
             /\ effects'[j] + Cardinality(LateOf(late', j)) + 0 <= tries'[j]
  BY <1>1, <1>2, <1>3, <1>4, VerdictInFlight
<1>5. \A j \in Jobs : effects'[j] \in Nat
  BY <1>1, MaxRetriesAssumption DEF TypeOK
<1> QED
  BY <1>1, <1>2, <1>3, <1>4, <1>5, VerdictsKept
\* A verdict that arrives late acts once, and is not outstanding any more.
LEMMA LateVerdicts ==
  ASSUME TypeOK, VerdictsKnown, NEW r \in late, late' = late \ {r}, UNCHANGED <<call, tries, outcome>>,
         effects' = [j \in Jobs |-> effects[j] + Cardinality(LateOf(late \ late', j))]
  PROVE  /\ VerdictsKnown'
         /\ \A j \in Jobs : effects'[j] = effects[j] + (IF r.job = j THEN 1 ELSE 0)
         /\ outcome[r.job] # "none" /\ effects[r.job] + 1 <= tries[r.job]
<1>1. ASSUME NEW j \in Jobs
      PROVE  /\ effects[j] \in Nat /\ effects'[j] = effects[j] + (IF r.job = j THEN 1 ELSE 0)
             /\ IsFiniteSet(LateOf(late, j)) /\ Cardinality(LateOf(late, j)) \in Nat
             /\ Cardinality(LateOf(late', j)) \in Nat
             /\ Cardinality(LateOf(late, j)) = Cardinality(LateOf(late', j)) + (IF r.job = j THEN 1 ELSE 0)
             /\ LateOf(late', j) \subseteq LateOf(late, j)
  <2>1. effects[j] \in Nat
    BY MaxRetriesAssumption DEF TypeOK
  <2>2. IsFiniteSet(late) /\ IsFiniteSet(late')
    BY FS_RemoveElement DEF VerdictsKnown
  <2>3. /\ IsFiniteSet(LateOf(late, j)) /\ Cardinality(LateOf(late, j)) \in Nat
        /\ Cardinality(LateOf(late', j)) \in Nat
    BY <2>2, LateIsCounted
  <2>4. effects'[j] = effects[j] + Cardinality(LateOf(late \ late', j))
    OBVIOUS
  <2>5. CASE r.job = j
    <3>1. LateOf(late \ late', j) = {r} /\ LateOf(late', j) = LateOf(late, j) \ {r}
      BY <2>5 DEF LateOf
    <3>2. Cardinality({r}) = 1
      BY FS_Singleton
    <3>3. Cardinality(LateOf(late, j) \ {r}) = Cardinality(LateOf(late, j)) - 1
      <4>1. r \in LateOf(late, j)
        BY <2>5 DEF LateOf
      <4> QED
        BY <2>3, <4>1, FS_RemoveElement
    <3>4. effects'[j] = effects[j] + 1
      BY <2>4, <3>1, <3>2
    <3>5. LateOf(late', j) \subseteq LateOf(late, j)
      BY <3>1
    <3>6. Cardinality(LateOf(late', j)) = Cardinality(LateOf(late, j)) - 1
      BY <3>1, <3>3
    <3>7. Cardinality(LateOf(late, j)) = Cardinality(LateOf(late', j)) + 1
      BY <2>3, <3>6
    <3> QED
      BY <2>1, <2>3, <2>5, <3>4, <3>5, <3>7
  <2>6. CASE r.job # j
    <3>1. LateOf(late \ late', j) = {} /\ LateOf(late', j) = LateOf(late, j)
      BY <2>6 DEF LateOf
    <3>2. Cardinality({}) = 0
      BY FS_EmptySet
    <3>3. effects'[j] = effects[j] + 0
      BY <2>4, <3>1, <3>2
    <3>4. Cardinality(LateOf(late, j)) = Cardinality(LateOf(late', j)) + 0
      BY <2>3, <3>1
    <3>5. LateOf(late', j) \subseteq LateOf(late, j)
      BY <3>1
    <3> HIDE <3>1
    <3> QED
      BY <2>1, <2>3, <2>6, <3>3, <3>4, <3>5
  <2> QED
    BY <2>5, <2>6
<1>2. r.job \in Jobs /\ r \in LateOf(late, r.job)
  BY DEF TypeOK, LateOf
<1>3. tries[r.job] # 0 /\ outcome[r.job] # "none"
  BY <1>2 DEF VerdictsKnown
<1>4. \A j \in Jobs : effects[j] + Outstanding(j) <= tries[j] /\ tries[j] \in Nat
  BY MaxRetriesAssumption DEF VerdictsKnown, EffectsWithinTries, TypeOK
<1>5. effects[r.job] + 1 <= tries[r.job]
  <2> DEFINE j == r.job
  <2>1. effects[j] \in Nat /\ Cardinality(LateOf(late, j)) > 0
    BY <1>1, <1>2
  <2>2. /\ effects[j] + (Cardinality(LateOf(late, j)) + (IF Sent(call, j) THEN 1 ELSE 0)) <= tries[j]
        /\ tries[j] \in Nat /\ Cardinality(LateOf(late, j)) \in Nat
    BY <1>1, <1>2, <1>4 DEF Outstanding
  <2> QED
    BY <2>1, <2>2
<1>6. EffectsWithinTries'
  <2>1. ASSUME NEW j \in Jobs
        PROVE  effects'[j] + (Cardinality(LateOf(late', j)) + (IF Sent(call', j) THEN 1 ELSE 0)) <= tries'[j]
    <3>1. /\ effects[j] + (Cardinality(LateOf(late, j)) + (IF Sent(call, j) THEN 1 ELSE 0)) <= tries[j]
          /\ tries[j] \in Nat
      BY <1>4 DEF Outstanding
    <3>2. /\ effects[j] \in Nat /\ Cardinality(LateOf(late', j)) \in Nat
          /\ effects'[j] = effects[j] + (IF r.job = j THEN 1 ELSE 0)
          /\ Cardinality(LateOf(late, j)) = Cardinality(LateOf(late', j)) + (IF r.job = j THEN 1 ELSE 0)
      BY <1>1
    <3>3. tries' = tries /\ call' = call
      OBVIOUS
    <3> QED
      BY <3>1, <3>2, <3>3
  <2> QED
    BY <2>1 DEF EffectsWithinTries, Outstanding
<1>7. ASSUME NEW j \in Jobs, effects[j] > 0
      PROVE  effects'[j] > 0
  BY <1>1, <1>7
<1>8. \A j \in Jobs : LateOf(late, j) = {} => LateOf(late', j) = {}
  BY <1>1
<1>9. IsFiniteSet(late')
  BY FS_RemoveElement DEF VerdictsKnown
<1> QED
  BY <1>1, <1>2, <1>3, <1>5, <1>6, <1>7, <1>8, <1>9 DEF VerdictsKnown, InFlight

\* A call begins, or is done with.
LEMMA BeginVerdicts ==
  ASSUME TypeOK, VerdictsKnown, NEW t \in Threads, Begin(t)
  PROVE  VerdictsKnown'
<1>1. PICK op \in Ops, j \in Jobs \cup {NoJob} :
         /\ op \in Verdicts => tries[j] = 0 /\ j # NoJob
         /\ call[t].phase = "idle"
         /\ call' = [call EXCEPT ![t] = [op |-> op, job |-> j, attempt |-> 1,
                                         phase |-> "sent", reply |-> NoJob]]
         /\ tries' = [k \in Jobs |-> IF op \in Verdicts /\ j = k THEN 1 ELSE tries[k]]
         /\ outcome' = [k \in Jobs |-> IF op \in Verdicts /\ j = k THEN "busy" ELSE outcome[k]]
  BY DEF Begin, Issue, Verdicts
<1>2. /\ call'[t] = [op |-> op, job |-> j, attempt |-> 1, phase |-> "sent", reply |-> NoJob]
      /\ \A u \in Threads \ {t} : call'[u] = call[u]
      /\ UNCHANGED <<late, effects>>
  BY <1>1 DEF TypeOK, Begin, backlogVars
<1>3. \A k \in Jobs : IsVerdictOf(call'[t], k) <=> op \in Verdicts /\ j = k
  BY <1>2 DEF IsVerdictOf
<1>4. ASSUME NEW k \in Jobs, op \in Verdicts, j = k
      PROVE  /\ tries[k] = 0 /\ outcome[k] = "none" /\ LateOf(late, k) = {}
             /\ \A u \in Threads : ~IsVerdictOf(call[u], k)
             /\ effects[k] = 0 /\ tries'[k] = 1 /\ outcome'[k] = "busy"
  <2>1. tries[k] = 0 /\ tries'[k] = 1 /\ outcome'[k] = "busy"
    BY <1>1, <1>4
  <2>2. effects[k] + Outstanding(k) <= tries[k] /\ effects[k] \in Nat
    BY MaxRetriesAssumption DEF VerdictsKnown, EffectsWithinTries, TypeOK
  <2>3. Cardinality(LateOf(late, k)) \in Nat
    BY LateIsCounted DEF VerdictsKnown
  <2>4. effects[k] = 0
    BY <2>1, <2>2, <2>3 DEF Outstanding
  <2> QED
    BY <2>1, <2>4 DEF VerdictsKnown
<1>5. ASSUME NEW k \in Jobs, ~(op \in Verdicts /\ j = k)
      PROVE  /\ tries'[k] = tries[k] /\ outcome'[k] = outcome[k] /\ ~IsVerdictOf(call'[t], k)
             /\ Sent(call', k) => Sent(call, k)
  BY <1>1, <1>2, <1>3, <1>5 DEF Sent
<1>6. \A u, v \in Threads, k \in Jobs :
         IsVerdictOf(call'[u], k) /\ IsVerdictOf(call'[v], k) => u = v
  <2> TAKE u, v \in Threads, k \in Jobs
  <2>1. CASE op \in Verdicts /\ j = k
    BY <1>2, <1>4, <2>1
  <2>2. CASE ~(op \in Verdicts /\ j = k)
    BY <1>2, <1>5, <2>2 DEF VerdictsKnown
  <2> QED
    BY <2>1, <2>2
<1>7. ASSUME NEW k \in Jobs
      PROVE  /\ outcome'[k] = "none" <=> tries'[k] = 0
             /\ tries'[k] = 0 => LateOf(late', k) = {} /\ \A u \in Threads : ~IsVerdictOf(call'[u], k)
  <2>1. CASE op \in Verdicts /\ j = k
    BY <1>4, <2>1
  <2>2. CASE ~(op \in Verdicts /\ j = k)
    BY <1>2, <1>5, <2>2 DEF VerdictsKnown
  <2> QED
    BY <2>1, <2>2
<1>8. ASSUME NEW u \in Threads, NEW k \in Jobs, IsVerdictOf(call'[u], k)
      PROVE  /\ call'[u].phase \in {"sent", "served"} =>
                   outcome'[k] = "busy" /\ tries'[k] = call'[u].attempt
             /\ call'[u].phase = "served" => effects'[k] > 0
  <2>1. CASE op \in Verdicts /\ j = k
    BY <1>2, <1>4, <1>8, <2>1
  <2>2. CASE ~(op \in Verdicts /\ j = k)
    BY <1>2, <1>5, <1>8, <2>2 DEF VerdictsKnown, InFlight
  <2> QED
    BY <2>1, <2>2
<1>9. EffectsWithinTries'
  <2>1. ASSUME NEW k \in Jobs
        PROVE  effects'[k] + (Cardinality(LateOf(late', k)) + (IF Sent(call', k) THEN 1 ELSE 0)) <= tries'[k]
    <3>1. CASE op \in Verdicts /\ j = k
      <4>1. Cardinality(LateOf(late', k)) = 0
        BY <1>2, <1>4, <3>1, FS_EmptySet
      <4>2. effects'[k] = 0 /\ tries'[k] = 1
        BY <1>2, <1>4, <3>1
      <4> QED
        BY <4>1, <4>2
    <3>2. CASE ~(op \in Verdicts /\ j = k)
      <4>1. effects[k] + Outstanding(k) <= tries[k] /\ effects[k] \in Nat /\ tries[k] \in Nat
        BY MaxRetriesAssumption DEF VerdictsKnown, EffectsWithinTries, TypeOK
      <4>2. Cardinality(LateOf(late, k)) \in Nat
        BY LateIsCounted DEF VerdictsKnown
      <4> QED
        BY <1>2, <1>5, <3>2, <4>1, <4>2 DEF Outstanding
    <3> QED
      BY <3>1, <3>2
  <2> QED
    BY <2>1 DEF EffectsWithinTries, Outstanding
<1>10. IsFiniteSet(late')
  BY <1>2 DEF VerdictsKnown
<1> QED
  BY <1>6, <1>7, <1>8, <1>9, <1>10 DEF VerdictsKnown, InFlight

LEMMA FinishVerdicts ==
  ASSUME TypeOK, VerdictsKnown, NEW t \in Threads, Finish(t)
  PROVE  VerdictsKnown'
<1>1. /\ call'[t] = Idle /\ \A u \in Threads \ {t} : call'[u] = call[u]
      /\ UNCHANGED <<late, tries, effects, outcome>>
  BY DEF Finish, Consume, TypeOK, backlogVars
<1>2. \A j \in Jobs : ~IsVerdictOf(call'[t], j)
  BY <1>1 DEF IsVerdictOf, Idle, Verdicts
<1>3. \A j \in Jobs : Sent(call', j) => Sent(call, j)
  BY <1>1, <1>2 DEF Sent
<1>4. EffectsWithinTries'
  <2>1. ASSUME NEW j \in Jobs
        PROVE  effects[j] + (Cardinality(LateOf(late, j)) + (IF Sent(call', j) THEN 1 ELSE 0)) <= tries[j]
    <3>1. effects[j] + Outstanding(j) <= tries[j] /\ effects[j] \in Nat /\ tries[j] \in Nat
      BY MaxRetriesAssumption DEF VerdictsKnown, EffectsWithinTries, TypeOK
    <3>2. Cardinality(LateOf(late, j)) \in Nat
      BY LateIsCounted DEF VerdictsKnown
    <3> QED
      BY <1>3, <3>1, <3>2 DEF Outstanding
  <2> QED
    BY <1>1, <2>1 DEF EffectsWithinTries, Outstanding
<1> QED
  BY <1>1, <1>2, <1>4 DEF VerdictsKnown, InFlight

-----------------------------------------------------------------------------
(* The claims. *)

\* A step that leaves every claimed job where it is.
LEMMA ClaimsStay ==
  ASSUME TypeOK, ClaimsKnown, UNCHANGED <<taken, unseen>>,
         \A u \in Threads :
            /\ call'[u].job = NoJob => call'[u].op = "claim"
            /\ call'[u].reply \in Jobs \/ call[u].reply \in Jobs =>
                  /\ call'[u].reply = call[u].reply
                  /\ call'[u].op = "claim" /\ call'[u].phase \in {"served", "done"},
         \A j \in Jobs : /\ status'[j] = "pending" => status[j] = "pending"
                         /\ status'[j] = "running" => status[j] = "running"
  PROVE  ClaimsKnown'
<1>1. \A j \in Jobs : InReply(call', j) <=> InReply(call, j)
  BY DEF InReply
<1>2. \A t, u \in Threads : call'[t].reply \in Jobs /\ call'[u].reply = call'[t].reply => t = u
  BY DEF ClaimsKnown
<1>3. \A j \in Jobs : status'[j] = "pending" => ~InReply(call', j) /\ j \notin taken' /\ j \notin unseen'
  BY <1>1 DEF ClaimsKnown
<1>4. ClaimsAccountedFor'
  BY <1>1 DEF ClaimsKnown, ClaimsAccountedFor
<1> QED
  BY <1>2, <1>3, <1>4 DEF ClaimsKnown

\* The reply that named a job is taken, or lost: the job moves with it.
LEMMA ClaimMoves ==
  ASSUME TypeOK, ClaimsKnown, NEW t \in Threads, NEW c \in Jobs, call[t].reply = c, UNCHANGED status,
         \A u \in Threads \ {t} : call'[u] = call[u],
         call'[t].reply \notin Jobs, call'[t].job = NoJob => call'[t].op = "claim",
         \/ taken' = taken \cup {c} /\ unseen' = unseen
         \/ unseen' = unseen \cup {c} /\ taken' = taken
  PROVE  ClaimsKnown'
<1>1. \A j \in Jobs : InReply(call', j) <=> InReply(call, j) /\ j # c
  BY DEF InReply, ClaimsKnown
<1>2. \A v, u \in Threads : call'[v].reply \in Jobs /\ call'[u].reply = call'[v].reply => v = u
  BY DEF ClaimsKnown
<1>3. InReply(call, c)
  BY DEF InReply
<1>4. \A j \in Jobs : status'[j] = "pending" => ~InReply(call', j) /\ j \notin taken' /\ j \notin unseen'
  BY <1>1, <1>3 DEF ClaimsKnown
<1>5. ClaimsAccountedFor'
  BY <1>1, <1>3 DEF ClaimsKnown, ClaimsAccountedFor
<1> QED
  BY <1>2, <1>4, <1>5 DEF ClaimsKnown

\* The server hands out a job: to the thread that asked, or to nobody.
LEMMA ClaimStarts ==
  ASSUME TypeOK, ClaimsKnown, NEW c \in Jobs, ServeClaim(c), UNCHANGED taken,
         \/ /\ unseen' = unseen \cup {c} /\ call' = call
         \/ /\ unseen' = unseen
            /\ \E t \in Threads :
                  /\ \A u \in Threads \ {t} : call'[u] = call[u]
                  /\ call'[t].reply = c /\ call'[t].op = "claim" /\ call'[t].phase = "served"
                  /\ call[t].reply \notin Jobs
  PROVE  ClaimsKnown'
<1>1. status[c] = "pending" /\ status'[c] = "running" /\ \A j \in Jobs \ {c} : status'[j] = status[j]
  BY NoJobAssumption DEF ServeClaim, TypeOK
<1>2. ~InReply(call, c) /\ c \notin taken /\ c \notin unseen
  BY <1>1 DEF ClaimsKnown
<1>3. CASE unseen' = unseen \cup {c} /\ call' = call
  <2>1. \A j \in Jobs : status'[j] = "pending" => ~InReply(call', j) /\ j \notin taken' /\ j \notin unseen'
    BY <1>1, <1>3 DEF ClaimsKnown
  <2>2. ClaimsAccountedFor'
    BY <1>1, <1>2, <1>3 DEF ClaimsKnown, ClaimsAccountedFor
  <2> QED
    BY <1>3, <2>1, <2>2 DEF ClaimsKnown
<1>4. CASE /\ unseen' = unseen
           /\ \E t \in Threads :
                 /\ \A u \in Threads \ {t} : call'[u] = call[u]
                 /\ call'[t].reply = c /\ call'[t].op = "claim" /\ call'[t].phase = "served"
                 /\ call[t].reply \notin Jobs
  <2>1. PICK t \in Threads :
           /\ \A u \in Threads \ {t} : call'[u] = call[u]
           /\ call'[t].reply = c /\ call'[t].op = "claim" /\ call'[t].phase = "served"
           /\ call[t].reply \notin Jobs
    BY <1>4
  <2>2. \A j \in Jobs : InReply(call', j) <=> InReply(call, j) \/ j = c
    BY <2>1 DEF InReply
  <2>3. \A u \in Threads : call[u].reply # c
    BY <1>2 DEF InReply
  <2>4. \A v, u \in Threads : call'[v].reply \in Jobs /\ call'[u].reply = call'[v].reply => v = u
    BY <2>1, <2>3 DEF ClaimsKnown
  <2>5. \A j \in Jobs : status'[j] = "pending" => ~InReply(call', j) /\ j \notin taken' /\ j \notin unseen'
    BY <1>1, <1>4, <2>2 DEF ClaimsKnown
  <2>6. ClaimsAccountedFor'
    BY <1>1, <1>2, <1>4, <2>2 DEF ClaimsKnown, ClaimsAccountedFor
  <2> QED
    BY <1>4, <2>1, <2>4, <2>5, <2>6 DEF ClaimsKnown
<1> QED
  BY <1>3, <1>4

\* Each attempt of a call, and the claims.
LEMMA HandleClaims ==
  ASSUME TypeOK, ClaimsKnown, NEW t \in Threads, Handle(t)
  PROVE  ClaimsKnown'
<1>1. /\ call[t].phase = "sent" /\ call[t].reply \notin Jobs /\ UNCHANGED <<taken, unseen>>
      /\ call[t].job = NoJob => call[t].op = "claim"
  BY DEF Handle, ServerHandles, ClaimsKnown, backlogVars
<1>2. PICK reply \in Replies : /\ Serve(call[t].op, call[t].job, reply)
                               /\ Reaches(t, call[t].attempt, "served", reply)
  BY DEF Handle, ServerHandles
<1>3. /\ call'[t].op = call[t].op /\ call'[t].job = call[t].job
      /\ call'[t].phase = "served" /\ call'[t].reply = reply
      /\ \A u \in Threads \ {t} : call'[u] = call[u]
  BY <1>2 DEF Reaches, TypeOK
<1>4. CASE reply \in Jobs
  <2>1. call[t].op = "claim" /\ ServeClaim(reply)
    BY <1>2, <1>4, RepliesAssumption DEF Serve, ServePoll, ServeVerdict
  <2> QED
    BY <1>1, <1>3, <1>4, <2>1, ClaimStarts
<1>5. CASE reply \notin Jobs
  <2>1. /\ \A j \in Jobs : /\ status'[j] = "pending" => status[j] = "pending"
                           /\ status'[j] = "running" => status[j] = "running"
    BY <1>2, <1>5 DEF Serve, ServeClaim, ServePoll, ServeVerdict, serverVars, TypeOK
  <2>2. ASSUME NEW u \in Threads
        PROVE  /\ call'[u].job = NoJob => call'[u].op = "claim"
               /\ call'[u].reply \in Jobs \/ call[u].reply \in Jobs =>
                     /\ call'[u].reply = call[u].reply
                     /\ call'[u].op = "claim" /\ call'[u].phase \in {"served", "done"}
    BY <1>1, <1>3, <1>5 DEF ClaimsKnown
  <2> QED
    BY <1>1, <2>1, <2>2, ClaimsStay
<1> QED
  BY <1>4, <1>5

LEMMA AnswerClaims ==
  ASSUME TypeOK, ClaimsKnown, NEW t \in Threads, Answer(t)
  PROVE  ClaimsKnown'
<1>1. UNCHANGED <<status, taken, unseen>>
  BY DEF Answer, ReplyArrives, serverVars, backlogVars
<1>2. /\ call'[t].op = call[t].op /\ call'[t].job = call[t].job
      /\ call'[t].phase = "done" /\ call'[t].reply = call[t].reply
      /\ \A u \in Threads \ {t} : call'[u] = call[u]
  BY DEF Answer, ReplyArrives, Reaches, TypeOK
<1>3. ASSUME NEW u \in Threads
      PROVE  /\ call'[u].job = NoJob => call'[u].op = "claim"
             /\ call'[u].reply \in Jobs \/ call[u].reply \in Jobs =>
                   /\ call'[u].reply = call[u].reply
                   /\ call'[u].op = "claim" /\ call'[u].phase \in {"served", "done"}
  BY <1>2 DEF ClaimsKnown
<1> QED
  BY <1>1, <1>3, ClaimsStay

\* A call that gives an attempt up forgets the job that its answer named.
LEMMA AbandonClaims ==
  ASSUME TypeOK, ClaimsKnown, NEW t \in Threads, NEW n, NEW phase, Reaches(t, n, phase, NoJob),
         InFlight(t), UNCHANGED <<status, taken>>, unseen' = unseen \cup Forgotten(call[t])
  PROVE  ClaimsKnown'
<1>1. /\ call'[t].op = call[t].op /\ call'[t].job = call[t].job /\ call'[t].reply = NoJob
      /\ \A u \in Threads \ {t} : call'[u] = call[u]
  BY DEF Reaches, TypeOK
<1>2. call[t].job = NoJob => call[t].op = "claim"
  BY DEF ClaimsKnown
<1>3. CASE call[t].phase = "served" /\ call[t].reply \in Jobs
  <2>1. Forgotten(call[t]) = {call[t].reply}
    BY <1>3 DEF Forgotten, ClaimsKnown
  <2> QED
    BY <1>1, <1>2, <1>3, <2>1, ClaimMoves, NoJobAssumption
<1>4. CASE call[t].reply \notin Jobs
  <2>1. unseen' = unseen
    BY <1>4 DEF Forgotten
  <2>2. ASSUME NEW u \in Threads
        PROVE  /\ call'[u].job = NoJob => call'[u].op = "claim"
               /\ call'[u].reply \in Jobs \/ call[u].reply \in Jobs =>
                     /\ call'[u].reply = call[u].reply
                     /\ call'[u].op = "claim" /\ call'[u].phase \in {"served", "done"}
    BY <1>1, <1>4, NoJobAssumption DEF ClaimsKnown
  <2> QED
    BY <2>1, <2>2, ClaimsStay
<1> QED
  BY <1>3, <1>4 DEF ClaimsKnown, InFlight

LEMMA BeginClaims ==
  ASSUME TypeOK, ClaimsKnown, NEW t \in Threads, Begin(t)
  PROVE  ClaimsKnown'
<1>1. UNCHANGED <<status, taken, unseen>>
  BY DEF Begin, serverVars, backlogVars
<1>2. /\ call[t].phase = "idle" /\ call'[t].reply = NoJob
      /\ call'[t].job = NoJob => call'[t].op = "claim"
      /\ \A u \in Threads \ {t} : call'[u] = call[u]
  BY DEF Begin, Issue, TypeOK
<1>3. ASSUME NEW u \in Threads
      PROVE  /\ call'[u].job = NoJob => call'[u].op = "claim"
             /\ call'[u].reply \in Jobs \/ call[u].reply \in Jobs =>
                   /\ call'[u].reply = call[u].reply
                   /\ call'[u].op = "claim" /\ call'[u].phase \in {"served", "done"}
  BY <1>2, NoJobAssumption DEF ClaimsKnown
<1> QED
  BY <1>1, <1>3, ClaimsStay

LEMMA FinishClaims ==
  ASSUME TypeOK, ClaimsKnown, NEW t \in Threads, Finish(t)
  PROVE  ClaimsKnown'
<1>1. /\ UNCHANGED <<status, unseen>> /\ taken' = taken \cup ({call[t].reply} \cap Jobs)
      /\ call'[t].reply = NoJob /\ call'[t].op = "claim"
      /\ \A u \in Threads \ {t} : call'[u] = call[u]
  BY DEF Finish, Consume, Idle, serverVars, backlogVars, TypeOK
<1>2. CASE call[t].reply \in Jobs
  BY <1>1, <1>2, ClaimMoves, NoJobAssumption
<1>3. CASE call[t].reply \notin Jobs
  <2>1. ASSUME NEW u \in Threads
        PROVE  /\ call'[u].job = NoJob => call'[u].op = "claim"
               /\ call'[u].reply \in Jobs \/ call[u].reply \in Jobs =>
                     /\ call'[u].reply = call[u].reply
                     /\ call'[u].op = "claim" /\ call'[u].phase \in {"served", "done"}
    BY <1>1, <1>3, NoJobAssumption DEF ClaimsKnown
  <2>2. taken' = taken
    BY <1>1, <1>3
  <2> QED
    BY <1>1, <2>1, <2>2, ClaimsStay
<1> QED
  BY <1>2, <1>3

\* Nothing about the calls changes, and no job becomes pending or running.
LEMMA CallsStay ==
  ASSUME TypeOK, ClaimsKnown, UNCHANGED <<call, taken, unseen>>,
         \A j \in Jobs : /\ status'[j] = "pending" => status[j] = "pending"
                         /\ status'[j] = "running" => status[j] = "running"
  PROVE  ClaimsKnown'
<1>1. ASSUME NEW u \in Threads
      PROVE  /\ call'[u].job = NoJob => call'[u].op = "claim"
             /\ call'[u].reply \in Jobs \/ call[u].reply \in Jobs =>
                   /\ call'[u].reply = call[u].reply
                   /\ call'[u].op = "claim" /\ call'[u].phase \in {"served", "done"}
  BY DEF ClaimsKnown
<1> QED
  BY <1>1, ClaimsStay

LEMMA OverdueClaims ==
  ASSUME TypeOK, ClaimsKnown, Overdue
  PROVE  ClaimsKnown'
<1>1. CASE LateClaim /\ UNCHANGED histVars
  <2>1. PICK reply \in Jobs \cup {NoJob} :
           Serve("claim", NoJob, reply) /\ unseen' = unseen \cup ({reply} \ {NoJob})
    BY <1>1 DEF LateClaim
  <2>2. ServeClaim(reply) /\ call' = call /\ taken' = taken
    BY <1>1, <2>1 DEF LateClaim, histVars, Serve, Verdicts
  <2>3. CASE reply \in Jobs
    BY <2>1, <2>2, <2>3, ClaimStarts, NoJobAssumption
  <2>4. CASE reply = NoJob
    BY <2>1, <2>2, <2>4, CallsStay, NoJobAssumption DEF ServeClaim
  <2> QED
    BY <2>3, <2>4
<1>2. CASE LateVerdict /\ UNCHANGED <<tries, outcome, raisedBy, taken>>
  <2>1. PICK r \in late : Serve(r.op, r.job, "ok")
    BY <1>2 DEF LateVerdict
  <2>2. r.op \in Verdicts /\ r.job \in Jobs
    BY DEF TypeOK
  <2>3. ServeVerdict(r.op, r.job, "ok")
    BY <2>1, <2>2 DEF Serve, Verdicts
  <2> QED
    BY <1>2, <2>2, <2>3, CallsStay DEF LateVerdict, ServeVerdict, TypeOK
<1> QED
  BY <1>1, <1>2 DEF Overdue

LEMMA CancelClaims ==
  ASSUME TypeOK, ClaimsKnown, NEW j \in Jobs, Cancel(j)
  PROVE  ClaimsKnown'
BY CallsStay DEF Cancel, UserCancel, TypeOK, clientVars, backlogVars, histVars

-----------------------------------------------------------------------------
(* Types. *)

\* The server keeps its types, whatever it handles.
LEMMA ServeTypes ==
  ASSUME TypeOK, NEW op, NEW j, op # "claim" => j \in Jobs, NEW reply, Serve(op, j, reply)
  PROVE  status' \in [Jobs -> Statuses] /\ userCancelled' \subseteq Jobs
BY DEF Serve, ServeClaim, ServePoll, ServeVerdict, serverVars, Statuses, TypeOK

\* So do the calls, as long as the attempt is one of MaxRetries.
LEMMA ReachesTypes ==
  ASSUME TypeOK, NEW t \in Threads, NEW n \in 1 .. MaxRetries,
         NEW phase \in {"sent", "served", "done", "raised"}, NEW reply \in Replies,
         Reaches(t, n, phase, reply)
  PROVE  call' \in [Threads -> Calls]
BY DEF Reaches, TypeOK, Calls

LEMMA AbandonTypes ==
  ASSUME TypeOK, ClaimsKnown, NEW t \in Threads, MayArriveLate(t),
         unseen' = unseen \cup Forgotten(call[t])
  PROVE  /\ late' \subseteq [op : Verdicts, job : Jobs, attempt : 1 .. MaxRetries]
         /\ lateClaims' \in 0 .. MaxLateClaims
         /\ unseen' \subseteq Jobs
<1>1. unseen' \subseteq Jobs
  BY DEF TypeOK, Forgotten
<1>2. call[t].op \in Verdicts => call[t].job \in Jobs
  BY DEF TypeOK, ClaimsKnown, Calls, Verdicts
<1>3. call[t].attempt \in 1 .. MaxRetries
  BY DEF TypeOK, Calls
<1>4. late' \subseteq [op : Verdicts, job : Jobs, attempt : 1 .. MaxRetries]
  BY <1>2, <1>3 DEF MayArriveLate, TypeOK
<1>5. lateClaims' \in 0 .. MaxLateClaims
  BY MaxLateClaimsAssumption DEF MayArriveLate, TypeOK
<1> QED
  BY <1>1, <1>4, <1>5

\* What has acted is bounded by the attempts, and so by MaxRetries.
LEMMA EffectsAreBounded ==
  ASSUME VerdictsKnown', tries' \in [Jobs -> 0 .. MaxRetries], effects' \in [Jobs -> Nat]
  PROVE  effects' \in [Jobs -> 0 .. MaxRetries]
<1>1. ASSUME NEW j \in Jobs
      PROVE  effects'[j] \in 0 .. MaxRetries
  <2>1. effects'[j] + (Cardinality(LateOf(late', j)) + (IF Sent(call', j) THEN 1 ELSE 0)) <= tries'[j]
    BY DEF VerdictsKnown, EffectsWithinTries, Outstanding
  <2>2. Cardinality(LateOf(late', j)) \in Nat
    BY LateIsCounted DEF VerdictsKnown
  <2>3. effects'[j] \in Nat /\ tries'[j] \in 0 .. MaxRetries
    OBVIOUS
  <2> QED
    BY <2>1, <2>2, <2>3, MaxRetriesAssumption
<1> QED
  BY <1>1

\* The attempts and the outcomes keep their types, whoever's verdict moves.
LEMMA RecordTypes ==
  ASSUME TypeOK, NEW t \in Threads, NEW how \in {"returned", "raised"}
  PROVE  /\ Recorded(t, how) \in [Jobs -> {"none", "busy", "returned", "raised"}]
         /\ Counted(effects, t) \in [Jobs -> Nat]
BY MaxRetriesAssumption DEF Recorded, Counted, TypeOK

LEMMA HandleTypes ==
  ASSUME ClientInv, NEW t \in Threads, Handle(t)
  PROVE  TypeOK'
<1> USE DEF ClientInv
<1>1. PICK reply \in Replies : /\ Serve(call[t].op, call[t].job, reply)
                               /\ Reaches(t, call[t].attempt, "served", reply)
  BY DEF Handle, ServerHandles
<1>2. call[t].attempt \in 1 .. MaxRetries /\ (call[t].op # "claim" => call[t].job \in Jobs)
  BY DEF TypeOK, Calls, ClaimsKnown
<1>3. status' \in [Jobs -> Statuses] /\ userCancelled' \subseteq Jobs
  BY <1>1, <1>2, ServeTypes
<1>4. call' \in [Threads -> Calls]
  BY <1>1, <1>2, ReachesTypes
<1>5. UNCHANGED <<late, lateClaims, unseen, tries, outcome, raisedBy, taken>>
      /\ effects' = Counted(effects, t)
  BY DEF Handle, ServerHandles, backlogVars
<1>6. effects' \in [Jobs -> 0 .. MaxRetries]
  <2>1. VerdictsKnown' /\ tries' \in [Jobs -> 0 .. MaxRetries] /\ effects' \in [Jobs -> Nat]
    BY <1>5, HandleVerdicts, RecordTypes DEF TypeOK
  <2> QED
    BY <2>1, EffectsAreBounded
<1> QED
  BY <1>3, <1>4, <1>5, <1>6 DEF TypeOK

LEMMA AnswerTypes ==
  ASSUME ClientInv, NEW t \in Threads, Answer(t)
  PROVE  TypeOK'
<1> USE DEF ClientInv
<1>1. call[t].attempt \in 1 .. MaxRetries /\ call[t].reply \in Replies
  BY DEF TypeOK, Calls
<1>2. call' \in [Threads -> Calls]
  BY <1>1, ReachesTypes DEF Answer, ReplyArrives
<1>3. outcome' \in [Jobs -> {"none", "busy", "returned", "raised"}]
  BY RecordTypes DEF Answer
<1>4. UNCHANGED <<status, userCancelled, late, lateClaims, unseen, tries, effects, raisedBy, taken>>
  BY DEF Answer, ReplyArrives, serverVars, backlogVars
<1> QED
  BY <1>2, <1>3, <1>4 DEF TypeOK

LEMMA RetryTypes ==
  ASSUME ClientInv, NEW t \in Threads, Retry(t)
  PROVE  TypeOK'
<1> USE DEF ClientInv
<1>1. /\ InFlight(t) /\ NextAttempt(t) /\ MayArriveLate(t) /\ unseen' = unseen \cup Forgotten(call[t])
      /\ UNCHANGED <<status, userCancelled, effects, taken>>
  BY DEF Retry, RetryableError, serverVars
<1>2. /\ late' \subseteq [op : Verdicts, job : Jobs, attempt : 1 .. MaxRetries]
      /\ lateClaims' \in 0 .. MaxLateClaims /\ unseen' \subseteq Jobs
  BY <1>1, AbandonTypes
<1>3. call[t].attempt \in 1 .. MaxRetries /\ NoJob \in Replies
  BY DEF TypeOK, Calls, Replies
<1>4. CASE call[t].attempt < MaxRetries
  <2>1. Reaches(t, call[t].attempt + 1, "sent", NoJob) /\ call[t].attempt + 1 \in 1 .. MaxRetries
    BY <1>1, <1>3, <1>4, MaxRetriesAssumption DEF NextAttempt
  <2>2. call' \in [Threads -> Calls]
    BY <1>3, <2>1, ReachesTypes
  <2>3. tries' = Counted(tries, t) /\ UNCHANGED <<outcome, raisedBy>>
    BY <1>4 DEF Retry
  <2>4. ASSUME NEW j \in Jobs
        PROVE  tries[j] + (IF IsVerdictOf(call[t], j) THEN 1 ELSE 0) \in 0 .. MaxRetries
    <3>1. tries[j] \in 0 .. MaxRetries /\ (IsVerdictOf(call[t], j) => tries[j] = call[t].attempt)
      BY <1>1, VerdictInFlight DEF TypeOK
    <3> QED
      BY <1>3, <1>4, <3>1, MaxRetriesAssumption
  <2>5. tries' \in [Jobs -> 0 .. MaxRetries]
    BY <2>3, <2>4 DEF Counted
  <2> QED
    BY <1>1, <1>2, <2>2, <2>3, <2>5 DEF TypeOK
<1>5. CASE ~(call[t].attempt < MaxRetries)
  <2>1. Reaches(t, call[t].attempt, "raised", NoJob)
    BY <1>1, <1>5 DEF NextAttempt
  <2>2. call' \in [Threads -> Calls]
    BY <1>3, <2>1, ReachesTypes
  <2>3. outcome' = Recorded(t, "raised") /\ raisedBy' = [raisedBy EXCEPT ![t] = "network"] /\ UNCHANGED tries
    BY <1>5 DEF Retry
  <2> QED
    BY <1>1, <1>2, <2>2, <2>3, RecordTypes DEF TypeOK
<1> QED
  BY <1>4, <1>5

LEMMA GiveUpTypes ==
  ASSUME ClientInv, NEW t \in Threads, GiveUpAtOnce(t)
  PROVE  TypeOK'
<1> USE DEF ClientInv
<1>1. /\ MayArriveLate(t) /\ Reaches(t, call[t].attempt, "raised", NoJob)
      /\ unseen' = unseen \cup Forgotten(call[t])
      /\ UNCHANGED <<status, userCancelled, tries, effects, taken>> /\ outcome' = Recorded(t, "raised")
  BY DEF GiveUpAtOnce, FatalError, serverVars
<1>2. /\ late' \subseteq [op : Verdicts, job : Jobs, attempt : 1 .. MaxRetries]
      /\ lateClaims' \in 0 .. MaxLateClaims /\ unseen' \subseteq Jobs
  BY <1>1, AbandonTypes
<1>3. call' \in [Threads -> Calls]
  <2>1. call[t].attempt \in 1 .. MaxRetries /\ NoJob \in Replies
    BY DEF TypeOK, Calls, Replies
  <2> QED
    BY <1>1, <2>1, ReachesTypes
<1>4. raisedBy' \in [Threads -> {"none", "network", "refused"}]
  BY DEF GiveUpAtOnce, TypeOK
<1> QED
  BY <1>1, <1>2, <1>3, <1>4, RecordTypes DEF TypeOK

LEMMA BeginTypes ==
  ASSUME ClientInv, NEW t \in Threads, Begin(t)
  PROVE  TypeOK'
<1> USE DEF ClientInv
<1>1. PICK op \in Ops, j \in Jobs \cup {NoJob} :
         /\ Issue(t, op, j)
         /\ tries' = [k \in Jobs |-> IF op \in Verdicts /\ j = k THEN 1 ELSE tries[k]]
         /\ outcome' = [k \in Jobs |-> IF op \in Verdicts /\ j = k THEN "busy" ELSE outcome[k]]
  BY DEF Begin
<1>2. UNCHANGED <<status, userCancelled, late, lateClaims, unseen, effects, taken>>
      /\ raisedBy' = [raisedBy EXCEPT ![t] = "none"]
  BY DEF Begin, serverVars, backlogVars
<1>3. call' \in [Threads -> Calls]
  BY <1>1, MaxRetriesAssumption DEF Issue, TypeOK, Calls, Replies
<1>4. tries' \in [Jobs -> 0 .. MaxRetries]
  BY <1>1, MaxRetriesAssumption DEF TypeOK
<1>5. outcome' \in [Jobs -> {"none", "busy", "returned", "raised"}]
  BY <1>1 DEF TypeOK
<1> QED
  BY <1>2, <1>3, <1>4, <1>5 DEF TypeOK

LEMMA FinishTypes ==
  ASSUME ClientInv, NEW t \in Threads, Finish(t)
  PROVE  TypeOK'
<1>1. Idle \in Calls
  BY MaxRetriesAssumption DEF Idle, Calls, Ops, Replies
<1>2. call' \in [Threads -> Calls]
  BY <1>1 DEF Finish, Consume, ClientInv, TypeOK
<1>3. taken' \subseteq Jobs
  BY DEF Finish, ClientInv, TypeOK
<1>4. UNCHANGED <<status, userCancelled, late, lateClaims, unseen, tries, effects, outcome, raisedBy>>
  BY DEF Finish, serverVars, backlogVars
<1> QED
  BY <1>2, <1>3, <1>4 DEF ClientInv, TypeOK

LEMMA LateClaimTypes ==
  ASSUME ClientInv, LateClaim, UNCHANGED histVars
  PROVE  TypeOK'
<1> USE DEF ClientInv
<1>1. PICK reply \in Jobs \cup {NoJob} :
         Serve("claim", NoJob, reply) /\ unseen' = unseen \cup ({reply} \ {NoJob})
  BY DEF LateClaim
<1>2. status' \in [Jobs -> Statuses] /\ userCancelled' \subseteq Jobs
  BY <1>1, ServeTypes
<1>3. lateClaims' \in 0 .. MaxLateClaims
  BY MaxLateClaimsAssumption DEF LateClaim, TypeOK
<1> QED
  BY <1>1, <1>2, <1>3 DEF LateClaim, histVars, TypeOK

LEMMA LateVerdictStep ==
  ASSUME ClientInv, LateVerdict, UNCHANGED <<tries, outcome, raisedBy, taken>>,
         effects' = [j \in Jobs |-> effects[j] + Cardinality(LateOf(late \ late', j))]
  PROVE  /\ TypeOK' /\ VerdictsKnown'
         /\ \E k \in Jobs : /\ outcome[k] # "none" /\ effects[k] + 1 <= tries[k]
                            /\ \A j \in Jobs : effects'[j] = effects[j] + (IF k = j THEN 1 ELSE 0)
<1> USE DEF ClientInv
<1>1. PICK r \in late : Serve(r.op, r.job, "ok") /\ late' = late \ {r}
  BY DEF LateVerdict
<1>2. UNCHANGED <<call, lateClaims, unseen>>
  BY DEF LateVerdict
<1>3. /\ VerdictsKnown'
      /\ \A j \in Jobs : effects'[j] = effects[j] + (IF r.job = j THEN 1 ELSE 0)
      /\ outcome[r.job] # "none" /\ effects[r.job] + 1 <= tries[r.job]
  BY <1>1, <1>2, LateVerdicts
<1>4. r.job \in Jobs
  BY DEF TypeOK
<1>5. status' \in [Jobs -> Statuses] /\ userCancelled' \subseteq Jobs
  BY <1>1, <1>4, ServeTypes
<1>6. effects' \in [Jobs -> 0 .. MaxRetries]
  <2>1. ASSUME NEW j \in Jobs
        PROVE  effects'[j] \in Nat
    <3>1. effects[j] \in Nat
      BY MaxRetriesAssumption DEF TypeOK
    <3>2. effects'[j] = effects[j] + (IF r.job = j THEN 1 ELSE 0)
      BY <1>3
    <3>3. CASE r.job = j
      BY <3>1, <3>2, <3>3
    <3>4. CASE r.job # j
      BY <3>1, <3>2, <3>4
    <3> QED
      BY <3>3, <3>4
  <2>2. effects' \in [Jobs -> Nat]
    BY <2>1
  <2>3. tries' \in [Jobs -> 0 .. MaxRetries]
    BY DEF TypeOK
  <2> QED
    BY <1>3, <2>2, <2>3, EffectsAreBounded
<1>7. TypeOK'
  BY <1>1, <1>2, <1>5, <1>6 DEF TypeOK
<1> QED
  BY <1>3, <1>4, <1>7

-----------------------------------------------------------------------------
(* The invariant. *)

LEMMA ClientStep ==
  ASSUME ClientInv, [Next]_vars
  PROVE  ClientInv'
<1> USE DEF ClientInv
<1>1. ASSUME NEW t \in Threads, Begin(t)
      PROVE  ClientInv'
  BY <1>1, BeginTypes, BeginClaims, BeginVerdicts
<1>2. ASSUME NEW t \in Threads, Attempt(t)
      PROVE  ClientInv'
  <2>1. CASE Handle(t)
    BY <2>1, HandleTypes, HandleClaims, HandleVerdicts
  <2>2. CASE Answer(t)
    BY <2>2, AnswerTypes, AnswerClaims, AnswerVerdicts
  <2>3. CASE Retry(t)
    <3>1. PICK n, phase : Reaches(t, n, phase, NoJob)
      BY <2>3 DEF Retry, RetryableError, NextAttempt
    <3>2. /\ InFlight(t) /\ UNCHANGED <<status, taken>> /\ unseen' = unseen \cup Forgotten(call[t])
      BY <2>3 DEF Retry, RetryableError, serverVars
    <3>3. ClaimsKnown'
      BY <3>1, <3>2, AbandonClaims
    <3> QED
      BY <2>3, <3>3, RetryTypes, RetryVerdicts
  <2>4. CASE GiveUpAtOnce(t)
    <3>1. /\ InFlight(t) /\ UNCHANGED <<status, taken>> /\ unseen' = unseen \cup Forgotten(call[t])
          /\ Reaches(t, call[t].attempt, "raised", NoJob)
      BY <2>4 DEF GiveUpAtOnce, FatalError, serverVars
    <3>2. ClaimsKnown'
      BY <3>1, AbandonClaims
    <3> QED
      BY <2>4, <3>2, GiveUpTypes, GiveUpVerdicts
  <2> QED
    BY <1>2, <2>1, <2>2, <2>3, <2>4 DEF Attempt
<1>3. ASSUME NEW t \in Threads, Finish(t)
      PROVE  ClientInv'
  BY <1>3, FinishTypes, FinishClaims, FinishVerdicts
<1>4. CASE Overdue
  <2>1. CASE LateClaim /\ UNCHANGED histVars
    <3>1. UNCHANGED <<call, late, tries, effects, outcome>>
      BY <2>1 DEF LateClaim, histVars
    <3>2. VerdictsKnown'
      BY <3>1 DEF VerdictsKnown, EffectsWithinTries, Outstanding, Sent, InFlight
    <3> QED
      BY <1>4, <2>1, <3>2, LateClaimTypes, OverdueClaims
  <2>2. CASE /\ LateVerdict /\ UNCHANGED <<tries, outcome, raisedBy, taken>>
             /\ effects' = [j \in Jobs |-> effects[j] + Cardinality(LateOf(late \ late', j))]
    BY <1>4, <2>2, LateVerdictStep, OverdueClaims
  <2> QED
    BY <1>4, <2>1, <2>2 DEF Overdue
<1>5. ASSUME NEW j \in Jobs, Cancel(j)
      PROVE  ClientInv'
  <2>1. UNCHANGED <<clientVars, histVars>> /\ UserCancel(j)
    BY <1>5 DEF Cancel
  <2>2. VerdictsKnown'
    BY <2>1 DEF clientVars, backlogVars, histVars, VerdictsKnown, EffectsWithinTries, Outstanding,
       Sent, InFlight
  <2>3. TypeOK'
    BY <2>1 DEF clientVars, backlogVars, histVars, UserCancel, TypeOK, Statuses
  <2> QED
    BY <1>5, <2>2, <2>3, CancelClaims
<1>6. CASE UNCHANGED vars
  <2>1. TypeOK'
    BY <1>6 DEF vars, serverVars, clientVars, backlogVars, histVars, TypeOK
  <2>2. ClaimsKnown'
    BY <1>6 DEF vars, serverVars, clientVars, backlogVars, histVars, ClaimsKnown,
       ClaimsAccountedFor, InReply
  <2>3. VerdictsKnown'
    BY <1>6 DEF vars, serverVars, clientVars, backlogVars, histVars, VerdictsKnown,
       EffectsWithinTries, Outstanding, Sent, InFlight
  <2> QED
    BY <2>1, <2>2, <2>3
<1> QED
  BY <1>1, <1>2, <1>3, <1>4, <1>5, <1>6 DEF Next

LEMMA ClientStarts ==
  ASSUME Init
  PROVE  ClientInv
<1> USE DEF Init, ServerInit, ClientInit
<1>1. TypeOK
  BY MaxRetriesAssumption, MaxLateClaimsAssumption DEF TypeOK, Statuses, Idle, Calls, Ops, Replies
<1>2. ClaimsKnown
  BY NoJobAssumption DEF ClaimsKnown, ClaimsAccountedFor, InReply, Idle
<1>3. VerdictsKnown
  <2>1. \A t \in Threads, j \in Jobs : ~IsVerdictOf(call[t], j)
    BY DEF IsVerdictOf, Idle, Verdicts
  <2>2. \A j \in Jobs : LateOf(late, j) = {} /\ ~Sent(call, j)
    BY <2>1 DEF LateOf, Sent
  <2>3. IsFiniteSet(late) /\ Cardinality({}) = 0
    BY FS_EmptySet
  <2>4. EffectsWithinTries
    <3>1. ASSUME NEW j \in Jobs
          PROVE  effects[j] + Outstanding(j) <= tries[j]
      <4>1. Outstanding(j) = 0
        BY <2>2, <2>3 DEF Outstanding
      <4>2. effects[j] = 0 /\ tries[j] = 0
        OBVIOUS
      <4> QED
        BY <4>1, <4>2
    <3> QED
      BY <3>1 DEF EffectsWithinTries
  <2> QED
    BY <2>1, <2>2, <2>3, <2>4 DEF VerdictsKnown
<1> QED
  BY <1>1, <1>2, <1>3 DEF ClientInv

\* The inductive invariant of the callback client.
THEOREM ClientInvariant == Spec => []ClientInv
<1>1. Init => ClientInv
  BY ClientStarts
<1>2. ClientInv /\ [Next]_vars => ClientInv'
  BY ClientStep
<1> QED
  BY <1>1, <1>2, PTL DEF Spec

\* Wherever the answer of a claim is lost, a job handed out is in exactly one place: in a
\* reply, taken by its caller, or known to nobody but the server (callbacks.py:89-93).
THEOREM ClaimsAccountedForHolds == Spec => []ClaimsAccountedFor
<1>1. ClientInv => ClaimsAccountedFor
  BY DEF ClientInv, ClaimsKnown
<1> QED
  BY <1>1, ClientInvariant, PTL

\* No verdict acts more often than it was sent (callbacks.py:184-200).
THEOREM EffectsWithinTriesHolds == Spec => []EffectsWithinTries
<1>1. ClientInv => EffectsWithinTries
  BY DEF ClientInv, VerdictsKnown
<1> QED
  BY <1>1, ClientInvariant, PTL

-----------------------------------------------------------------------------
(* The refinement. *)

\* The verdict that a call in flight posts ends in one way, or no verdict does.
LEMMA OutcomeMoves ==
  ASSUME ClientInv, NEW t \in Threads, InFlight(t), NEW how
  PROVE  \/ Recorded(t, how) = outcome
         \/ \E k \in Jobs : /\ IsVerdictOf(call[t], k) /\ outcome[k] = "busy"
                           /\ Recorded(t, how) = [outcome EXCEPT ![k] = how]
<1> USE DEF ClientInv
<1>1. outcome = [j \in Jobs |-> outcome[j]]
  BY DEF TypeOK
<1>2. CASE \E k \in Jobs : IsVerdictOf(call[t], k)
  <2>1. PICK k \in Jobs : IsVerdictOf(call[t], k)
    BY <1>2
  <2>2. \A j \in Jobs : IsVerdictOf(call[t], j) <=> j = k
    BY <2>1 DEF IsVerdictOf
  <2>3. Recorded(t, how) = [outcome EXCEPT ![k] = how]
    BY <1>1, <2>2 DEF Recorded
  <2>4. outcome[k] = "busy"
    BY <2>1, VerdictInFlight
  <2> QED
    BY <2>1, <2>3, <2>4
<1>3. CASE \A k \in Jobs : ~IsVerdictOf(call[t], k)
  BY <1>1, <1>3 DEF Recorded
<1> QED
  BY <1>2, <1>3

\* What acts on the server acts once, or is no verdict.
LEMMA EffectsMove ==
  ASSUME ClientInv, NEW t \in Threads, Handle(t)
  PROVE  [Abstract!Next]_(Abstract!vars)
<1> USE DEF ClientInv
<1>1. /\ outcome' = outcome /\ InFlight(t) /\ effects' = Counted(effects, t)
  BY DEF Handle, ServerHandles, InFlight
<1>2. \A j \in Jobs : effects[j] \in Nat /\ tries[j] \in 0 .. MaxRetries
  BY MaxRetriesAssumption DEF TypeOK
<1>3. effects = [j \in Jobs |-> effects[j]]
  BY DEF TypeOK
<1>4. CASE \E k \in Jobs : IsVerdictOf(call[t], k)
  <2>1. PICK k \in Jobs : IsVerdictOf(call[t], k)
    BY <1>4
  <2>2. \A j \in Jobs : IsVerdictOf(call[t], j) <=> j = k
    BY <2>1 DEF IsVerdictOf
  <2>3. ASSUME NEW j \in Jobs
        PROVE  Counted(effects, t)[j] = [effects EXCEPT ![k] = @ + 1][j]
    <3>1. CASE j = k
      BY <1>3, <2>2, <3>1 DEF Counted
    <3>2. CASE j # k
      <4>1. Counted(effects, t)[j] = effects[j] + 0
        BY <2>2, <3>2 DEF Counted
      <4>2. [effects EXCEPT ![k] = @ + 1][j] = effects[j]
        BY <1>3, <3>2
      <4> QED
        BY <1>2, <4>1, <4>2
    <3> QED
      BY <3>1, <3>2
  <2>4. effects' = [effects EXCEPT ![k] = @ + 1]
    BY <1>1, <1>3, <2>3 DEF Counted
  <2>5. outcome[k] # "none"
    BY <1>1, <2>1, VerdictInFlight
  <2>6. effects[k] < MaxRetries
    <3>1. effects[k] + 1 <= tries[k]
      BY <2>1, HandleVerdicts
    <3> QED
      BY <1>2, <3>1, MaxRetriesAssumption
  <2> QED
    BY <1>1, <2>4, <2>5, <2>6 DEF Abstract!Next, Abstract!Act
<1>5. CASE \A k \in Jobs : ~IsVerdictOf(call[t], k)
  <2>1. ASSUME NEW j \in Jobs
        PROVE  Counted(effects, t)[j] = effects[j]
    <3>1. Counted(effects, t)[j] = effects[j] + 0
      BY <1>5 DEF Counted
    <3> QED
      BY <1>2, <3>1
  <2>2. effects' = effects
    BY <1>1, <1>3, <2>1 DEF Counted
  <2> QED
    BY <1>1, <2>2 DEF Abstract!vars
<1> QED
  BY <1>4, <1>5

\* A verdict that arrives late acts once.
LEMMA LateActs ==
  ASSUME ClientInv, LateVerdict, UNCHANGED <<tries, outcome, raisedBy, taken>>,
         effects' = [j \in Jobs |-> effects[j] + Cardinality(LateOf(late \ late', j))]
  PROVE  Abstract!Next
<1>1. PICK k \in Jobs : /\ outcome[k] # "none" /\ effects[k] + 1 <= tries[k]
                        /\ \A j \in Jobs : effects'[j] = effects[j] + (IF k = j THEN 1 ELSE 0)
  BY LateVerdictStep
<1>2. \A j \in Jobs : effects[j] \in Nat /\ tries[j] \in 0 .. MaxRetries
  BY MaxRetriesAssumption DEF ClientInv, TypeOK
<1>3. effects = [j \in Jobs |-> effects[j]]
  BY DEF ClientInv, TypeOK
<1>4. ASSUME NEW j \in Jobs
      PROVE  effects'[j] = [effects EXCEPT ![k] = @ + 1][j]
  <2>1. CASE j = k
    BY <1>1, <1>3, <2>1
  <2>2. CASE j # k
    <3>1. effects'[j] = effects[j] + 0
      BY <1>1, <2>2
    <3> QED
      BY <1>2, <1>3, <2>2, <3>1
  <2> QED
    BY <2>1, <2>2
<1>5. effects' = [effects EXCEPT ![k] = @ + 1]
  <2>1. effects' = [j \in Jobs |-> effects'[j]]
    OBVIOUS
  <2>2. [effects EXCEPT ![k] = @ + 1] = [j \in Jobs |-> [effects EXCEPT ![k] = @ + 1][j]]
    BY <1>3
  <2> QED
    BY <1>4, <2>1, <2>2
<1>6. effects[k] < MaxRetries
  BY <1>1, <1>2, MaxRetriesAssumption
<1> QED
  BY <1>1, <1>5, <1>6 DEF Abstract!Next, Abstract!Act

\* The retry loop of _post, with everything that can be lost, delayed or answered too late,
\* implements the abstract remote call: it acts at most _MAX_RETRIES times, has acted when it
\* returns, and ends one way only (callbacks.py:184-200).
THEOREM ClientIsRemoteCall == Spec => IsRemoteCallSafely
<1>1. Init => Abstract!Init
  BY DEF Init, Abstract!Init
<1>2. ClientInv /\ [Next]_vars => [Abstract!Next]_(Abstract!vars)
  <2> SUFFICES ASSUME ClientInv, [Next]_vars
               PROVE  [Abstract!Next]_(Abstract!vars)
    OBVIOUS
  <2>1. ASSUME NEW t \in Threads, Begin(t)
        PROVE  [Abstract!Next]_(Abstract!vars)
    <3>1. PICK op \in Ops, j \in Jobs \cup {NoJob} :
             /\ op \in Verdicts => tries[j] = 0 /\ j \in Jobs
             /\ outcome' = [k \in Jobs |-> IF op \in Verdicts /\ j = k THEN "busy" ELSE outcome[k]]
             /\ UNCHANGED effects
      BY <2>1 DEF Begin, Verdicts
    <3>2. outcome = [k \in Jobs |-> outcome[k]]
      BY DEF ClientInv, TypeOK
    <3>3. CASE op \in Verdicts
      <4>1. outcome[j] = "none"
        BY <3>1, <3>3 DEF ClientInv, VerdictsKnown
      <4>2. outcome' = [outcome EXCEPT ![j] = "busy"]
        BY <3>1, <3>2, <3>3
      <4> QED
        BY <3>1, <3>3, <4>1, <4>2 DEF Abstract!Next, Abstract!Begin
    <3>4. CASE op \notin Verdicts
      BY <3>1, <3>2, <3>4 DEF Abstract!vars
    <3> QED
      BY <3>3, <3>4
  <2>2. ASSUME NEW t \in Threads, Answer(t)
        PROVE  [Abstract!Next]_(Abstract!vars)
    <3>1. /\ InFlight(t) /\ call[t].phase = "served" /\ outcome' = Recorded(t, "returned")
          /\ UNCHANGED effects
      BY <2>2 DEF Answer, ReplyArrives, InFlight
    <3>2. \A k \in Jobs : IsVerdictOf(call[t], k) => effects[k] > 0
      BY <3>1, VerdictInFlight DEF ClientInv
    <3> QED
      BY <3>1, <3>2, OutcomeMoves DEF Abstract!Next, Abstract!Return, Abstract!vars
  <2>3. ASSUME NEW t \in Threads, Retry(t) \/ GiveUpAtOnce(t)
        PROVE  [Abstract!Next]_(Abstract!vars)
    <3>1. /\ InFlight(t) /\ UNCHANGED effects
          /\ outcome' = outcome \/ outcome' = Recorded(t, "raised")
      BY <2>3 DEF Retry, GiveUpAtOnce, RetryableError, FatalError
    <3> QED
      BY <3>1, OutcomeMoves DEF Abstract!Next, Abstract!Raise, Abstract!vars
  <2>4. CASE Overdue
    BY <2>4, LateActs DEF Overdue, histVars, Abstract!vars
  <2>5. CASE \/ \E t \in Threads : Finish(t)
             \/ \E j \in Jobs : Cancel(j)
             \/ UNCHANGED vars
    BY <2>5 DEF Finish, Cancel, vars, histVars, Abstract!vars
  <2> QED
    BY <2>1, <2>2, <2>3, <2>4, <2>5, EffectsMove DEF Next, Attempt
<1> QED
  BY <1>1, <1>2, ClientInvariant, PTL DEF Spec, IsRemoteCallSafely, Abstract!SafeSpec
=============================================================================
