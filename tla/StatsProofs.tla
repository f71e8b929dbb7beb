----------------------------- MODULE StatsProofs -----------------------------
(***************************************************************************)
(* Proofs about the stats worker (module StatsWorker) for any set of       *)
(* messages, any number of processes and any number of deliveries.         *)
(***************************************************************************)
EXTENDS StatsWorker, WellFoundedInduction, TLAPS

-----------------------------------------------------------------------------
(* The type invariant with the deliveries that are left. *)

Typed == TypeOK /\ DeliveriesLeft

\* A message goes back to the queue only with a delivery left.
LEMMA RequeueTyped ==
  ASSUME Typed, NEW j \in Jobs, Requeue(j), UNCHANGED <<payload, deliveries>>
  PROVE  /\ msg' \in [Jobs -> {"available", "pending", "settled", "givenUp"}]
         /\ DeliveriesLeft'
         /\ \A i \in Jobs : msg'[i] = "settled" => msg[i] = "settled"
  BY DEF Typed, TypeOK, DeliveriesLeft, Requeue

\* A delivery uses one of those left.
LEMMA DeliverTyped ==
  ASSUME Typed, NEW j \in Jobs, Deliver(j)
  PROVE  /\ msg' \in [Jobs -> {"available", "pending", "settled", "givenUp"}]
         /\ deliveries' \in [Jobs -> 0 .. MaxDeliver]
         /\ DeliveriesLeft'
         /\ \A i \in Jobs : msg'[i] = "settled" => msg[i] = "settled"
  BY DeliverAssumption DEF Typed, TypeOK, DeliveriesLeft, Deliver

\* An ACK settles only its own message.
LEMMA AckTyped ==
  ASSUME Typed, NEW j \in Jobs, AckArrives(j), UNCHANGED <<payload, deliveries>>
  PROVE  /\ msg' \in [Jobs -> {"available", "pending", "settled", "givenUp"}]
         /\ DeliveriesLeft'
         /\ \A i \in Jobs : msg'[i] = "settled" => msg[i] = "settled" \/ i = j
  BY DEF Typed, TypeOK, DeliveriesLeft, AckArrives

\* A NAK settles nothing.
LEMMA NakTyped ==
  ASSUME Typed, NEW j \in Jobs, NakArrives(j), UNCHANGED <<payload, deliveries>>
  PROVE  /\ msg' \in [Jobs -> {"available", "pending", "settled", "givenUp"}]
         /\ DeliveriesLeft'
         /\ \A i \in Jobs : msg'[i] = "settled" => msg[i] = "settled"
  BY RequeueTyped DEF Typed, TypeOK, DeliveriesLeft, NakArrives

\* Every message is available and every process at its start (stats_worker.py:279-304).
LEMMA StatsInit == Init => IInv
  BY DeliverAssumption DEF Init, IInv, TypeOK, DeliveriesLeft, StepsInOrder, Finished,
     SettledMeansDone, PostedMeansStored, PostedKnown

-----------------------------------------------------------------------------
(* Each kind of step keeps the invariant. *)

\* What a process knows stays true when another one stores and posts.
Grows == stored \subseteq stored' /\ posted \subseteq posted'

\* Steps that touch neither the queue nor the results, up to the verdict on the message
\* (stats_worker.py:279-328 and 252-256).
LEMMA QuietSteps ==
  ASSUME IInv, NEW w \in Workers,
         \/ Connect(w) \/ ConnectFails(w) \/ LoopHead(w) \/ Decode(w) \/ Download(w)
         \/ Compute(w) \/ AckRaises(w) \/ NakRaises(w) \/ Killed(w) \/ Signal(w)
  PROVE  IInv'
<1> USE DEF IInv
<1>1. UNCHANGED <<queueVars, resultVars>>
  BY DEF Connect, ConnectFails, LoopHead, Decode, Download, Compute, AckRaises, NakRaises,
         Killed, Signal
<1>2. (DeliveriesLeft /\ SettledMeansDone /\ PostedMeansStored /\ PostedKnown)'
  BY <1>1 DEF queueVars, resultVars, DeliveriesLeft, SettledMeansDone, PostedMeansStored, PostedKnown
<1>3. TypeOK'
  <2>1. CASE Connect(w) \/ ConnectFails(w)
    BY <1>1, <2>1 DEF Connect, ConnectFails, Goto, TypeOK, queueVars, resultVars
  <2>2. CASE LoopHead(w) \/ Signal(w)
    BY <1>1, <2>2 DEF LoopHead, Signal, Goto, Gone, TypeOK, queueVars, resultVars
  <2>3. CASE Decode(w) \/ Download(w) \/ Compute(w) \/ AckRaises(w)
    BY <1>1, <2>3 DEF Decode, Download, Compute, AckRaises, Goto, TypeOK, queueVars, resultVars
  <2>4. CASE NakRaises(w) \/ Killed(w)
    BY <1>1, <2>4 DEF NakRaises, Killed, Goto, TypeOK, queueVars, resultVars
  <2> QED
    BY <2>1, <2>2, <2>3, <2>4
<1>4. StepsInOrder'
  <2>1. CASE Connect(w) \/ ConnectFails(w) \/ LoopHead(w) \/ Signal(w)
    BY <1>1, <2>1 DEF Connect, ConnectFails, LoopHead, Signal, Goto, TypeOK, queueVars,
                      resultVars, StepsInOrder, Finished
  <2>2. CASE Decode(w) \/ Download(w)
    BY <1>1, <2>2 DEF Decode, Download, Goto, TypeOK, queueVars, resultVars, StepsInOrder,
                      Finished
  <2>3. CASE Compute(w)
    <3>1. work[w] \in Jobs
      BY <2>3 DEF Compute, TypeOK
    <3> QED
      BY <1>1, <2>3, <3>1 DEF Compute, Goto, TypeOK, queueVars, resultVars, StepsInOrder,
                              Finished
  <2>4. CASE AckRaises(w) \/ NakRaises(w) \/ Killed(w)
    BY <1>1, <2>4 DEF AckRaises, NakRaises, Killed, Goto, TypeOK, queueVars, resultVars,
                      StepsInOrder, Finished
  <2> QED
    BY <2>1, <2>2, <2>3, <2>4
<1> QED
  BY <1>2, <1>3, <1>4

\* Fetching (stats_worker.py:308-321).
LEMMA FetchSteps ==
  ASSUME IInv, NEW w \in Workers, FetchGets(w) \/ FetchNothing(w)
  PROVE  IInv'
<1> USE DEF IInv
<1>1. CASE FetchGets(w)
  <2>1. PICK j \in Jobs : Deliver(j) /\ work' = [work EXCEPT ![w] = j]
    BY <1>1 DEF FetchGets
  <2>2. /\ msg' \in [Jobs -> {"available", "pending", "settled", "givenUp"}]
        /\ deliveries' \in [Jobs -> 0 .. MaxDeliver]
        /\ DeliveriesLeft'
        /\ \A i \in Jobs : msg'[i] = "settled" => msg[i] = "settled"
    BY <2>1, DeliverTyped DEF Typed
  <2>3. payload' = payload /\ UNCHANGED <<resultVars, shutdown>> /\ Goto(w, "decode")
    BY <1>1, <2>1 DEF FetchGets, Deliver
  <2>4. TypeOK'
    BY <2>1, <2>2, <2>3, DeliverAssumption DEF TypeOK, Goto, resultVars
  <2>5. StepsInOrder'
    BY <2>1, <2>3 DEF TypeOK, Goto, resultVars, StepsInOrder, Finished
  <2>6. (SettledMeansDone /\ PostedMeansStored /\ PostedKnown)'
    BY <2>2, <2>3 DEF resultVars, SettledMeansDone, PostedMeansStored, PostedKnown
  <2> QED
    BY <2>2, <2>4, <2>5, <2>6
<1>2. CASE FetchNothing(w)
  <2>1. payload' = payload /\ UNCHANGED <<resultVars, work, shutdown>> /\ Goto(w, "loop")
    BY <1>2 DEF FetchNothing, Deliver, queueVars
  <2>2. /\ msg' \in [Jobs -> {"available", "pending", "settled", "givenUp"}]
        /\ deliveries' \in [Jobs -> 0 .. MaxDeliver]
        /\ DeliveriesLeft'
        /\ \A i \in Jobs : msg'[i] = "settled" => msg[i] = "settled"
    <3>1. CASE UNCHANGED queueVars
      BY <3>1 DEF queueVars, TypeOK, DeliveriesLeft
    <3>2. CASE \E j \in Jobs : Deliver(j)
      BY <3>2, DeliverTyped DEF Typed
    <3> QED
      BY <1>2, <3>1, <3>2 DEF FetchNothing
  <2>3. TypeOK'
    BY <1>2, <2>1, <2>2 DEF FetchNothing, TypeOK, Goto, resultVars
  <2>4. StepsInOrder'
    BY <2>1 DEF TypeOK, Goto, resultVars, StepsInOrder, Finished
  <2>5. (SettledMeansDone /\ PostedMeansStored /\ PostedKnown)'
    BY <2>1, <2>2 DEF resultVars, SettledMeansDone, PostedMeansStored, PostedKnown
  <2> QED
    BY <2>2, <2>3, <2>4, <2>5
<1> QED
  BY <1>1, <1>2

\* The writes of a job, whether they return or raise (stats_worker.py:258-262).
LEMMA WriteSteps ==
  ASSUME IInv, NEW w \in Workers, Upload(w) \/ Put(w) \/ StepFails(w)
  PROVE  IInv'
<1> USE DEF IInv
<1>1. work[w] \in Jobs
  BY DEF Upload, Put, StepFails, TypeOK
<1>2. UNCHANGED <<queueVars, work, shutdown>> /\ Grows
  BY DEF Upload, Put, StepFails, Grows, resultVars
<1>3. DeliveriesLeft' /\ SettledMeansDone'
  BY <1>2 DEF queueVars, Grows, DeliveriesLeft, SettledMeansDone
<1>4. TypeOK'
  BY <1>1, <1>2 DEF Upload, Put, StepFails, Goto, TypeOK, queueVars, resultVars
<1>5. PostedMeansStored' /\ PostedKnown'
  BY <1>1 DEF Upload, Put, StepFails, PostedMeansStored, PostedKnown, StepsInOrder, resultVars,
     queueVars
<1>6. StepsInOrder'
  <2>1. CASE Upload(w)
    BY <1>1, <1>2, <2>1 DEF Upload, Goto, TypeOK, queueVars, StepsInOrder, Finished
  <2>2. CASE Put(w)
    BY <1>1, <1>2, <2>2 DEF Put, Goto, TypeOK, queueVars, StepsInOrder, Finished
  <2>3. CASE StepFails(w)
    BY <1>1, <1>2, <2>3 DEF StepFails, Goto, Grows, TypeOK, queueVars, StepsInOrder, Finished
  <2> QED
    BY <2>1, <2>2, <2>3
<1> QED
  BY <1>3, <1>4, <1>5, <1>6

\* The end of a job (stats_worker.py:329-334).
LEMMA AnswerSteps ==
  ASSUME IInv, NEW w \in Workers, Ack(w) \/ Nak(w)
  PROVE  IInv'
<1> USE DEF IInv
<1>1. work[w] \in Jobs /\ UNCHANGED <<payload, deliveries, resultVars, shutdown>>
  BY DEF Ack, Nak, TypeOK
<1>2. Goto(w, "loop") /\ work' = [work EXCEPT ![w] = NoJob] /\ pc[w] \in {"ack", "nak"}
  BY DEF Ack, Nak
<1>3. /\ msg' \in [Jobs -> {"available", "pending", "settled", "givenUp"}]
      /\ DeliveriesLeft'
      /\ \A i \in Jobs : msg'[i] = "settled" =>
            msg[i] = "settled" \/ (i = work[w] /\ Finished(i))
  <2>1. CASE Ack(w)
    <3>1. Finished(work[w])
      BY <2>1 DEF Ack, StepsInOrder
    <3>2. CASE AckArrives(work[w])
      BY <1>1, <3>1, <3>2, AckTyped DEF Typed
    <3>3. CASE UNCHANGED msg
      BY <1>1, <3>3 DEF TypeOK, DeliveriesLeft
    <3> QED
      BY <2>1, <3>2, <3>3 DEF Ack
  <2>2. CASE Nak(w)
    <3>1. CASE NakArrives(work[w])
      BY <1>1, <3>1, NakTyped DEF Typed
    <3>2. CASE UNCHANGED msg
      BY <1>1, <3>2 DEF TypeOK, DeliveriesLeft
    <3> QED
      BY <2>2, <3>1, <3>2 DEF Nak
  <2> QED
    BY <2>1, <2>2
<1>4. TypeOK'
  BY <1>1, <1>2, <1>3, DeliverAssumption DEF TypeOK, Goto, resultVars
<1>5. StepsInOrder'
  BY <1>1, <1>2 DEF TypeOK, Goto, resultVars, StepsInOrder, Finished
<1>6. (SettledMeansDone /\ PostedMeansStored /\ PostedKnown)'
  BY <1>1, <1>3 DEF resultVars, SettledMeansDone, PostedMeansStored, PostedKnown, Finished
<1> QED
  BY <1>3, <1>4, <1>5, <1>6

\* The ack wait of a message ends, also while a process works on it.
LEMMA WaitStep ==
  ASSUME IInv, NEW j \in Jobs, AckWaitEnds(j)
  PROVE  IInv'
<1> USE DEF IInv
<1>1. /\ msg' \in [Jobs -> {"available", "pending", "settled", "givenUp"}]
      /\ DeliveriesLeft'
      /\ \A i \in Jobs : msg'[i] = "settled" => msg[i] = "settled"
  BY RequeueTyped DEF AckWaitEnds, Typed
<1>2. UNCHANGED <<payload, deliveries, resultVars, pc, work, shutdown>>
  BY DEF AckWaitEnds
<1>3. TypeOK' /\ StepsInOrder'
  BY <1>1, <1>2 DEF TypeOK, resultVars, StepsInOrder, Finished
<1>4. (SettledMeansDone /\ PostedMeansStored /\ PostedKnown)'
  BY <1>1, <1>2 DEF resultVars, SettledMeansDone, PostedMeansStored, PostedKnown
<1> QED
  BY <1>1, <1>3, <1>4

-----------------------------------------------------------------------------
\* The invariant of the stats worker holds in every reachable state.
THEOREM StatsInvariant == Spec => []IInv
<1>1. IInv /\ [Next]_vars => IInv'
  <2>1. IInv /\ UNCHANGED vars => IInv'
    BY DEF IInv, TypeOK, DeliveriesLeft, StepsInOrder, Finished, SettledMeansDone,
           PostedMeansStored, PostedKnown, vars, queueVars, resultVars
  <2> QED
    BY <2>1, QuietSteps, FetchSteps, WriteSteps, AnswerSteps, WaitStep DEF Next, WorkerStep
<1> QED
  BY <1>1, StatsInit, PTL DEF Spec

\* stats_worker.py:325-334: a message is acknowledged only when its stats are stored and
\* posted, or when there are none, whatever is redelivered, killed or done twice.
THEOREM SettledMeansDoneHolds == Spec => []SettledMeansDone
<1>1. IInv => SettledMeansDone
  BY DEF IInv
<1> QED
  BY <1>1, StatsInvariant, PTL

\* stats_worker.py:258-262: the server is only told about stats that are stored.
THEOREM PostedMeansStoredHolds == Spec => []PostedMeansStored
<1>1. IInv => PostedMeansStored
  BY DEF IInv
<1> QED
  BY <1>1, StatsInvariant, PTL

-----------------------------------------------------------------------------
(* What the statistics are taken of. *)

\* A set of naturals that is not empty has a least element.
LEMMA LeastNat ==
  ASSUME NEW S \in SUBSET Nat, S # {}
  PROVE  \E m \in S : \A n \in S : m <= n
<1> DEFINE R == OpToRel(<, Nat)
<1>1. IsWellFoundedOn(R, Nat)
  BY NatLessThanWellFounded
<1>2. \A x, y \in Nat : x < y => <<x, y>> \in R
  BY DEF OpToRel
<1> HIDE DEF R
<1>3. PICK m \in S : \A y \in S : ~ (<<y, m>> \in R)
  BY <1>1, WFMin
<1> SUFFICES ASSUME NEW n \in S PROVE m <= n
  OBVIOUS
<1>4. ~ (n < m)
  BY <1>2, <1>3
<1> QED
  BY <1>4

\* An array is a column of a file of the dataset.
LEMMA ArrayIsColumn ==
  ASSUME NEW ds \in Datasets, NEW name, NEW p \in ArraysOf(ds, name)
  PROVE  /\ p[1] \in Nat /\ p[2] \in Nat /\ p = <<p[1], p[2]>>
         /\ p[1] \in DOMAIN ds.files /\ p[2] \in DOMAIN ds.files[p[1]].columns
         /\ Column(ds, p) = ds.files[p[1]].columns[p[2]]
         /\ Column(ds, p).name = name /\ Column(ds, p).kind # "opaque"
<1>1. PICK i \in DOMAIN ds.files : p \in {<<i, k>> : k \in DOMAIN ds.files[i].columns}
  BY DEF ArraysOf, Arrays
<1>2. PICK k \in DOMAIN ds.files[i].columns : p = <<i, k>>
  BY <1>1
<1>3. i \in Nat
  BY DatasetsAssumption
<1>4. ds.files[i].columns \in Seq(Columns)
  <2>1. ds.files \in Seq(ParquetFiles)
    BY DatasetsAssumption
  <2>2. ds.files[i] \in ParquetFiles
    BY <2>1
  <2> QED
    BY <2>2 DEF ParquetFiles
<1>5. k \in Nat
  BY <1>4
<1> QED
  BY <1>2, <1>3, <1>5 DEF ArraysOf, Column

\* Of the arrays of a name one is met first (stats_worker.py:87-106).
LEMMA OneIsMetFirst ==
  ASSUME NEW ds \in Datasets, NEW name, ArraysOf(ds, name) # {}
  PROVE  FirstMet(ds, name) \in ArraysOf(ds, name)
<1> DEFINE A == ArraysOf(ds, name)
           firsts == {p[1] : p \in A}
<1>1. firsts \in SUBSET Nat /\ firsts # {}
  BY ArrayIsColumn
<1>2. PICK i \in firsts : \A j \in firsts : i <= j
  <2> HIDE DEF firsts
  <2> QED
    BY <1>1, LeastNat
<1> DEFINE seconds == {p[2] : p \in {q \in A : q[1] = i}}
<1>3. seconds \in SUBSET Nat /\ seconds # {}
  BY ArrayIsColumn
<1>4. PICK k \in seconds : \A l \in seconds : k <= l
  <2> HIDE DEF seconds
  <2> QED
    BY <1>3, LeastNat
<1>5. PICK p \in A : p[1] = i /\ p[2] = k
  BY <1>4
<1>6. \A q \in A : Met(p, q)
  <2> SUFFICES ASSUME NEW q \in A PROVE Met(p, q)
    OBVIOUS
  <2>1. q[1] \in firsts /\ q[1] \in Nat /\ i \in Nat /\ i <= q[1]
    BY <1>1, <1>2
  <2>2. CASE q[1] = i
    BY <1>4, <1>5, <2>2 DEF Met
  <2>3. CASE q[1] # i
    BY <1>5, <2>1, <2>3 DEF Met
  <2> QED
    BY <2>2, <2>3
<1> QED
  BY <1>5, <1>6 DEF FirstMet

\* No frame is taken twice, and none of another column: whatever name is chosen.
LEMMA ArraysOnce ==
  ASSUME NEW ds \in Datasets, NEW name,
         NEW p \in ArraysOf(ds, name), NEW q \in ArraysOf(ds, name)
  PROVE  /\ p[1] = q[1] => p = q
         /\ Column(ds, p).name = Column(ds, q).name
<1>1. /\ p = <<p[1], p[2]>> /\ q = <<q[1], q[2]>>
      /\ Column(ds, p).name = name /\ Column(ds, q).name = name
  BY ArrayIsColumn
<1>2. ASSUME p[1] = q[1] PROVE p[2] = q[2]
  <2> DEFINE i == p[1]
  <2>1. /\ i \in DOMAIN ds.files /\ p[2] \in DOMAIN ds.files[i].columns
        /\ q[2] \in DOMAIN ds.files[i].columns
        /\ ds.files[i].columns[p[2]].name = ds.files[i].columns[q[2]].name
    BY <1>1, <1>2, ArrayIsColumn DEF Column
  <2> HIDE DEF i
  <2> QED
    BY <2>1, DatasetsAssumption
<1> QED
  BY <1>1, <1>2

\* Where every file has numbers for a feature in one column, the same in all, this column
\* is the one chosen, and it has an array in each file.
LEMMA OneColumnIsChosen ==
  ASSUME NEW ds \in Datasets, NEW name \in ColumnNames, NEW f \in {FeatureOf[n] : n \in Numeric(ds)},
         OneColumn(ds, f, name)
  PROVE  /\ ColumnOf(ds, f) = name
         /\ {p[1] : p \in ArraysOf(ds, name)} = DOMAIN ds.files
<1>1. ASSUME NEW other \in ColumnNames, FeatureOf[other] = f, ArraysOf(ds, other) # {}
      PROVE  other = name
  <2>1. PICK p \in ArraysOf(ds, other) : TRUE
    BY <1>1
  <2>2. /\ p[1] \in DOMAIN ds.files /\ p[2] \in DOMAIN ds.files[p[1]].columns
        /\ Column(ds, p) = ds.files[p[1]].columns[p[2]] /\ Column(ds, p).name = other
    BY ArrayIsColumn
  <2>3. Column(ds, p) \in Range(ds.files[p[1]].columns)
    BY <2>2 DEF Range
  <2>4. Column(ds, p) \in {[name |-> name, kind |-> "number"]}
    BY <1>1, <2>2, <2>3 DEF OneColumn
  <2> QED
    BY <2>2, <2>4
<1>2. PICK n \in Numeric(ds) : FeatureOf[n] = f
  OBVIOUS
<1>3. n = name
  BY <1>1, <1>2 DEF Numeric
<1>4. name \in Numeric(ds) /\ FeatureOf[name] = f /\ ArraysOf(ds, name) # {}
  BY <1>2, <1>3 DEF Numeric
<1>5. \A other \in Numeric(ds) : FeatureOf[other] = f => other = name
  BY <1>1 DEF Numeric
<1>6. Met(FirstMet(ds, name), FirstMet(ds, name))
  <2>1. FirstMet(ds, name) \in ArraysOf(ds, name)
    BY <1>4, OneIsMetFirst
  <2>2. FirstMet(ds, name)[1] \in Nat /\ FirstMet(ds, name)[2] \in Nat
    BY <2>1, ArrayIsColumn
  <2> QED
    BY <2>2 DEF Met
<1>7. ColumnOf(ds, f) = name
  BY <1>4, <1>5, <1>6 DEF ColumnOf
<1>8. ASSUME NEW i \in DOMAIN ds.files
      PROVE  \E p \in ArraysOf(ds, name) : p[1] = i
  <2>1. ds.files[i].readable
    BY DEF OneColumn
  <2>2. [name |-> name, kind |-> "number"] \in Range(ds.files[i].columns)
    BY DEF OneColumn
  <2>3. PICK k \in DOMAIN ds.files[i].columns :
           ds.files[i].columns[k] = [name |-> name, kind |-> "number"]
    BY <2>2 DEF Range
  <2>4. <<i, k>> \in Arrays(ds)
    BY <2>1, <2>3 DEF Arrays
  <2>5. Column(ds, <<i, k>>) = [name |-> name, kind |-> "number"]
    BY <2>3 DEF Column
  <2>6. <<i, k>> \in ArraysOf(ds, name)
    BY <2>4, <2>5 DEF ArraysOf
  <2> QED
    BY <2>6
<1>9. \A p \in ArraysOf(ds, name) : p[1] \in DOMAIN ds.files
  BY ArrayIsColumn
<1> QED
  BY <1>7, <1>8, <1>9

\* The statistics of every dataset take its frames once.
LEMMA EveryDatasetOnce == TakesFramesOnce = Datasets
<1> SUFFICES ASSUME NEW ds \in Datasets, NEW f \in DOMAIN StatsOf[ds] \ ds.cameras
             PROVE  FramesOnce(ds, f)
  BY DEF TakesFramesOnce
<1>1. StatsOf[ds] = ComputeDatasetStats(ds)
  BY DEF StatsOf
<1>2. /\ f \in {FeatureOf[n] : n \in Numeric(ds)}
      /\ StatsOf[ds][f] = ArraysOf(ds, ColumnOf(ds, f))
  BY <1>1 DEF ComputeDatasetStats
<1>3. \A p, q \in StatsOf[ds][f] : /\ p[1] = q[1] => p = q
                                  /\ Column(ds, p).name = Column(ds, q).name
  BY <1>2, ArraysOnce
<1>4. ASSUME NEW name \in ColumnNames, OneColumn(ds, f, name)
      PROVE  {p[1] : p \in StatsOf[ds][f]} = DOMAIN ds.files
  BY <1>2, <1>4, OneColumnIsChosen
<1> QED
  BY <1>3, <1>4 DEF FramesOnce

\* stats_worker.py:85-128: the statistics the server has of a feature take no frame twice,
\* mix no two columns, and leave no frame out where every file has the feature in one
\* column of numbers: for datasets of any number of files and columns.
THEOREM PostedStatsTakeFramesOnceHolds == Spec => []PostedStatsTakeFramesOnce
<1>1. IInv => PostedStatsTakeFramesOnce
  BY EveryDatasetOnce DEF IInv, TypeOK, PostedKnown, PostedStatsTakeFramesOnce
<1> QED
  BY <1>1, StatsInvariant, PTL
=============================================================================
