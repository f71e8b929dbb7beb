---------------------------- MODULE WorkerProofs ----------------------------
(***************************************************************************)
(* Proofs about the worker (module Worker) for any set of jobs, any number *)
(* of retries and any assignment of trainers to jobs.                      *)
(***************************************************************************)
EXTENDS WorkerCancel, TLAPS

-----------------------------------------------------------------------------
(* The calls: what issuing, taking and moving a call does to its fields. *)

\* The value of a thread that is in no call is a call (callbacks.py:184).
LEMMA IdleIsCall == Idle \in Calls /\ Idle.phase = "idle"
  BY MaxRetriesAssumption DEF Idle, Calls, Ops, Replies

\* A record of an endpoint, a job, a pass, a phase and an answer is a call.
LEMMA NewCall ==
  ASSUME NEW op \in Ops, NEW j \in Jobs \cup {NoJob}, NEW n \in 1 .. MaxRetries,
         NEW p \in {"idle", "sent", "served", "done", "raised"}, NEW r \in Replies
  PROVE  [op |-> op, job |-> j, attempt |-> n, phase |-> p, reply |-> r] \in Calls
  BY DEF Calls

\* The fields of a call have their types.
LEMMA CallFields ==
  ASSUME NEW c \in Calls
  PROVE  /\ c.op \in Ops /\ c.job \in Jobs \cup {NoJob} /\ c.attempt \in 1 .. MaxRetries
         /\ c.phase \in {"idle", "sent", "served", "done", "raised"} /\ c.reply \in Replies
  BY DEF Calls

\* Issuing a call only changes the call of that thread.
LEMMA IssueFacts ==
  ASSUME call \in [Threads -> Calls], NEW t \in Threads, NEW op \in Ops,
         NEW j \in Jobs \cup {NoJob}, Issue(t, op, j)
  PROVE  /\ call' \in [Threads -> Calls]
         /\ call[t].phase = "idle"
         /\ call'[t].op = op /\ call'[t].job = j
         /\ call'[t].phase = "sent" /\ call'[t].reply = NoJob
         /\ \A u \in Threads \ {t} : call'[u] = call[u]
<1> DEFINE c == [op |-> op, job |-> j, attempt |-> 1, phase |-> "sent", reply |-> NoJob]
<1>1. c \in Calls
  BY MaxRetriesAssumption, NewCall DEF Replies
<1>2. c.op = op /\ c.job = j /\ c.phase = "sent" /\ c.reply = NoJob
  OBVIOUS
<1>3. call' = [call EXCEPT ![t] = c] /\ call[t].phase = "idle"
  BY DEF Issue
<1> HIDE DEF c
<1> QED
  BY <1>1, <1>2, <1>3

\* Taking the result of a call only makes that thread idle.
LEMMA ConsumeFacts ==
  ASSUME call \in [Threads -> Calls], NEW t \in Threads, Consume(t)
  PROVE  /\ call' \in [Threads -> Calls]
         /\ call[t].phase \in {"done", "raised"}
         /\ call'[t] = Idle
         /\ \A u \in Threads \ {t} : call'[u] = call[u]
  BY IdleIsCall DEF Consume, Ended

\* A step of an attempt keeps the endpoint and the job of the call, and all other calls.
LEMMA ReachesFacts ==
  ASSUME call \in [Threads -> Calls], NEW t \in Threads, NEW n \in 1 .. MaxRetries,
         NEW p \in {"sent", "served", "done", "raised"}, NEW r \in Replies, Reaches(t, n, p, r)
  PROVE  /\ call' \in [Threads -> Calls]
         /\ call'[t].op = call[t].op /\ call'[t].job = call[t].job
         /\ call'[t].phase = p /\ call'[t].reply = r
         /\ \A u \in Threads \ {t} : call'[u] = call[u]
<1> DEFINE c == [op |-> call[t].op, job |-> call[t].job, attempt |-> n, phase |-> p, reply |-> r]
<1>1. c \in Calls
  BY CallFields, NewCall
<1>2. c.op = call[t].op /\ c.job = call[t].job /\ c.phase = p /\ c.reply = r
  OBVIOUS
<1>3. call' = [call EXCEPT ![t] = c]
  BY DEF Reaches
<1> HIDE DEF c
<1> QED
  BY <1>1, <1>2, <1>3

\* What a step of the network does to the call it moves.
CallMoves(t) ==
    /\ call' \in [Threads -> Calls]
    /\ call'[t].op = call[t].op /\ call'[t].job = call[t].job
    /\ \A u \in Threads \ {t} : call'[u] = call[u]

\* A retryable error leads to the next pass or to the exception, never to an answer
\* (callbacks.py:184-200).
LEMMA NextAttemptFacts ==
  ASSUME call \in [Threads -> Calls], NEW t \in Threads, NextAttempt(t)
  PROVE  CallMoves(t) /\ call'[t].phase \in {"sent", "raised"} /\ call'[t].reply = NoJob
<1>1. call[t].attempt \in 1 .. MaxRetries /\ NoJob \in Replies
  BY CallFields DEF Replies
<1>2. CASE call[t].attempt < MaxRetries
  <2>1. call[t].attempt + 1 \in 1 .. MaxRetries
    BY <1>1, <1>2, MaxRetriesAssumption
  <2> QED
    BY <1>1, <1>2, <2>1, ReachesFacts DEF NextAttempt, CallMoves
<1>3. CASE ~(call[t].attempt < MaxRetries)
  BY <1>1, <1>3, ReachesFacts DEF NextAttempt, CallMoves
<1> QED
  BY <1>2, <1>3

\* The backlog keeps its type: only claims and verdicts enter it.
LEMMA MayArriveLateFacts ==
  ASSUME call \in [Threads -> Calls], NEW t \in Threads, MayArriveLate(t),
         call[t].op \in Verdicts => call[t].job \in Jobs,
         late \subseteq [op : Verdicts, job : Jobs, attempt : 1 .. MaxRetries],
         lateClaims \in 0 .. MaxLateClaims
  PROVE  /\ late' \subseteq [op : Verdicts, job : Jobs, attempt : 1 .. MaxRetries]
         /\ lateClaims' \in 0 .. MaxLateClaims
         /\ \A r \in late' : r \in late \/ (/\ call[t].op \in Verdicts
                                             /\ r.op = call[t].op /\ r.job = call[t].job)
         /\ late \subseteq late'
<1>1. call[t].attempt \in 1 .. MaxRetries
  BY CallFields
<1>2. CASE UNCHANGED <<late, lateClaims>>
  BY <1>2
<1>3. CASE /\ call[t].op \in Verdicts
           /\ late' = late \cup {[op |-> call[t].op, job |-> call[t].job,
                                  attempt |-> call[t].attempt]}
           /\ UNCHANGED lateClaims
  BY <1>1, <1>3
<1>4. CASE lateClaims < MaxLateClaims /\ lateClaims' = lateClaims + 1 /\ UNCHANGED late
  BY <1>4, MaxLateClaimsAssumption
<1> QED
  BY <1>2, <1>3, <1>4 DEF MayArriveLate

-----------------------------------------------------------------------------
(* Control: types, and every thread in the call its location says. *)

\* Initially every thread is idle and where its location says.
LEMMA ControlInit == Init => Control
<1> SUFFICES ASSUME Init PROVE Control
  OBVIOUS
<1> USE ThreadsAssumption, IdleIsCall DEF Init, ServerInit, ClientInit
<1>1. 0 \in 0 .. MaxLateClaims
  BY MaxLateClaimsAssumption
<1>2. call \in [Threads -> Calls] /\ \A t \in Threads : call[t] = Idle
  OBVIOUS
<1>3. TypeOK
  BY <1>1, <1>2 DEF TypeOK, Statuses, MainLocs, HbLocs, Fates
<1>4. JobHeld /\ MainCall /\ HeartbeatCall
  BY <1>2 DEF JobHeld, MainCall, HeartbeatCall
<1> QED
  BY <1>3, <1>4 DEF Control

\* What a step of the network may change.
LEMMA CallStepTypes ==
  ASSUME Control, NEW t \in Threads, CallStep(t)
  PROVE  /\ CallMoves(t) /\ InFlight(t) /\ call'[t].phase # "idle"
         /\ call'[t].phase \in {"sent", "raised"} => call'[t].reply = NoJob
         /\ status' \in [Jobs -> Statuses] /\ userCancelled' = userCancelled
         /\ late' \subseteq [op : Verdicts, job : Jobs, attempt : 1 .. MaxRetries]
         /\ lateClaims' \in 0 .. MaxLateClaims
         /\ unseen' \subseteq Jobs
<1> USE DEF Control, TypeOK
<1>1. /\ call[t].op \in Ops /\ call[t].attempt \in 1 .. MaxRetries
      /\ call[t].reply \in Replies /\ NoJob \in Replies
  BY CallFields DEF Replies
<1>2. InFlight(t) => (call[t].op # "claim" => call[t].job \in Jobs)
  BY ThreadsAssumption, NoJobAssumption, IdleIsCall
  DEF InFlight, JobHeld, MainCall, HeartbeatCall, MainLocs
<1>3. Forgotten(call[t]) \subseteq Jobs \cup Replies
  BY <1>1 DEF Forgotten
<1>4. CASE ServerHandles(t)
  <2>1. PICK reply \in Replies : /\ Serve(call[t].op, call[t].job, reply)
                                 /\ Reaches(t, call[t].attempt, "served", reply)
    BY <1>4 DEF ServerHandles
  <2>2. CallMoves(t) /\ call'[t].phase = "served"
    BY <1>1, <2>1, ReachesFacts DEF CallMoves
  <2>3. status' \in [Jobs -> Statuses] /\ userCancelled' = userCancelled
    BY <2>1 DEF Serve, ServeClaim, ServePoll, ServeVerdict, serverVars, Statuses
  <2> QED
    BY <1>4, <2>2, <2>3 DEF ServerHandles, InFlight, backlogVars
<1>5. CASE ReplyArrives(t)
  BY <1>1, <1>5, ReachesFacts DEF ReplyArrives, InFlight, CallMoves, serverVars, backlogVars
<1>6. CASE RetryableError(t)
  <2>1. CallMoves(t) /\ call'[t].phase # "idle" /\ call'[t].reply = NoJob
    BY <1>6, NextAttemptFacts DEF RetryableError
  <2>2. unseen' \subseteq Jobs
    BY <1>1, <1>6 DEF RetryableError, Forgotten, Replies
  <2> QED
    BY <1>2, <1>6, <2>1, <2>2, MayArriveLateFacts DEF RetryableError, serverVars, Verdicts
<1>7. CASE FatalError(t)
  <2>1. CallMoves(t) /\ call'[t].phase # "idle" /\ call'[t].reply = NoJob
    BY <1>1, <1>7, ReachesFacts DEF FatalError, CallMoves
  <2>2. unseen' \subseteq Jobs
    BY <1>1, <1>7 DEF FatalError, Forgotten, Replies
  <2> QED
    BY <1>2, <1>7, <2>1, <2>2, MayArriveLateFacts DEF FatalError, serverVars, Verdicts
<1> QED
  BY <1>4, <1>5, <1>6, <1>7 DEF CallStep

\* The network keeps every thread in the call it waits for (callbacks.py:182-205).
LEMMA ControlNetwork ==
  ASSUME Control, NEW t \in Threads, NetworkStep(t)
  PROVE  Control'
<1> USE DEF Control, NetworkStep, mainVars, trainerVars, hbVars, runVars
<1>1. /\ CallMoves(t) /\ InFlight(t) /\ call'[t].phase # "idle"
      /\ call'[t].phase \in {"sent", "raised"} => call'[t].reply = NoJob
      /\ status' \in [Jobs -> Statuses] /\ userCancelled' = userCancelled
      /\ late' \subseteq [op : Verdicts, job : Jobs, attempt : 1 .. MaxRetries]
      /\ lateClaims' \in 0 .. MaxLateClaims
      /\ unseen' \subseteq Jobs
  BY CallStepTypes
<1>2. TypeOK' /\ JobHeld'
  BY <1>1 DEF CallMoves, TypeOK, JobHeld
<1>3. MainCall' /\ HeartbeatCall'
  BY <1>1, IdleIsCall, ThreadsAssumption DEF CallMoves, InFlight, MainCall, HeartbeatCall
<1> QED
  BY <1>2, <1>3

\* The main thread: one case per action.
LEMMA ControlMain ==
  ASSUME Control, MainStep
  PROVE  Control'
<1> USE ThreadsAssumption, NoJobAssumption, IdleIsCall
    DEF Control, TypeOK, JobHeld, MainCall, HeartbeatCall, remoteVars, serverVars,
        backlogVars, trainerVars, hbVars, runVars
<1>1. /\ "claim" \in Ops /\ "heartbeat" \in Ops /\ "progress" \in Ops
      /\ Verdicts \subseteq Ops /\ "complete" \in Verdicts /\ "failed" \in Verdicts
  BY DEF Ops, Verdicts
<1>2. CASE PollClaim
  <2>1. Issue(Main, "claim", NoJob)
    BY <1>2 DEF PollClaim
  <2>2. /\ call' \in [Threads -> Calls] /\ call'[Main].op = "claim"
        /\ call'[Main].phase = "sent" /\ call'[Main].reply = NoJob
        /\ \A j \in Jobs : call'[j] = call[j]
    <3>1. Main \in Threads /\ "claim" \in Ops /\ Jobs \subseteq Threads \ {Main}
      BY <1>1
    <3>2. /\ call' \in [Threads -> Calls] /\ call'[Main].op = "claim"
          /\ call'[Main].phase = "sent" /\ call'[Main].reply = NoJob
          /\ \A u \in Threads \ {Main} : call'[u] = call[u]
      BY <2>1, <3>1, IssueFacts
    <3> QED
      BY <3>1, <3>2
  <2>3. TypeOK' /\ JobHeld'
    BY <1>2, <2>2 DEF PollClaim, MainLocs
  <2>4. MainCall' /\ HeartbeatCall'
    BY <1>2, <2>2 DEF PollClaim
  <2> QED
    BY <2>3, <2>4
<1>3. CASE ClaimReturns
  <2>1. Consume(Main)
    BY <1>3 DEF ClaimReturns
  <2>2. /\ call' \in [Threads -> Calls] /\ call'[Main] = Idle
        /\ \A j \in Jobs : call'[j] = call[j]
    BY <2>1, ConsumeFacts
  <2>3. UNCHANGED <<remoteVars, shutdown, hbVars, runVars>> /\ stage' = "live" /\ told' = FALSE
    BY <1>3 DEF ClaimReturns
  <2>4. \/ pc' = "setup" /\ job' \in Jobs
        \/ pc' = "waiting" /\ job' = NoJob
    BY <1>3 DEF ClaimReturns
  <2>5. TypeOK' /\ JobHeld'
    BY <2>2, <2>3, <2>4 DEF MainLocs
  <2>6. MainCall' /\ HeartbeatCall'
    BY <2>2, <2>3, <2>4
  <2> QED
    BY <2>5, <2>6
<1>4. CASE WaitEnds \/ StopLoop
  <2>1. TypeOK' /\ JobHeld'
    BY <1>4 DEF WaitEnds, StopLoop, MainLocs
  <2>2. MainCall' /\ HeartbeatCall'
    BY <1>4 DEF WaitEnds, StopLoop
  <2> QED
    BY <2>1, <2>2
<1>5. CASE SetupSucceeds
  <2>1. TypeOK' /\ JobHeld'
    BY <1>5 DEF SetupSucceeds, MainLocs, HbLocs
  <2>2. MainCall' /\ HeartbeatCall'
    BY <1>5 DEF SetupSucceeds
  <2> QED
    BY <2>1, <2>2
<1>6. CASE ScratchReady \/ StartReplay
  <2>1. TypeOK' /\ JobHeld'
    BY <1>6 DEF ScratchReady, StartReplay, MainLocs
  <2>2. MainCall' /\ HeartbeatCall'
    BY <1>6 DEF ScratchReady, StartReplay
  <2> QED
    BY <2>1, <2>2
<1>7. CASE ScratchFails \/ TrainerCancels
  <2>1. /\ pc \in {"scratch", "train"}
        /\ pc' = "poll" /\ job' = NoJob
        /\ fate' \in [Jobs -> Fates] /\ hbStop' \in [Jobs -> BOOLEAN]
        /\ UNCHANGED <<remoteVars, call, trainerVars, shutdown, hb, cancelFlag, uploaded, posted>>
    <3>1. CASE ScratchFails
      BY <3>1 DEF ScratchFails, LeaveJob, Fates
    <3>2. CASE TrainerCancels
      BY <3>2 DEF TrainerCancels, LeaveJob, StopHeartbeat, Fates
    <3> QED
      BY <1>7, <3>1, <3>2
  <2>2. TypeOK' /\ JobHeld'
    BY <2>1 DEF MainLocs
  <2>3. call'[Main] = Idle
    BY <2>1
  <2>4. MainCall' /\ HeartbeatCall'
    BY <2>1, <2>3
  <2> QED
    BY <2>2, <2>4
<1>8. CASE Report
  <2>1. job \in Jobs /\ Issue(Main, "progress", job)
    BY <1>8 DEF Report
  <2>2. /\ call' \in [Threads -> Calls] /\ call'[Main].op = "progress" /\ call'[Main].job = job
        /\ call'[Main].phase = "sent" /\ \A j \in Jobs : call'[j] = call[j]
    BY <1>1, <2>1, IssueFacts
  <2>3. TypeOK' /\ JobHeld'
    BY <1>8, <2>2 DEF Report, MainLocs
  <2>4. MainCall' /\ HeartbeatCall'
    BY <1>8, <2>2 DEF Report
  <2> QED
    BY <2>3, <2>4
<1>9. CASE ReportReturns
  <2>1. Consume(Main)
    BY <1>9 DEF ReportReturns
  <2> QED
    BY <1>9, <2>1, ConsumeFacts DEF ReportReturns, MainLocs, KeepGoing
<1>10. CASE TrainerReturns
  BY <1>10 DEF TrainerReturns, StopHeartbeat, MainLocs
<1>11. CASE SetupFails \/ TrainerRaises \/ UploadSucceeds \/ UploadFails
  <2>1. job \in Jobs /\ \E v \in Verdicts : PostVerdict(v)
    BY <1>1, <1>11 DEF SetupFails, TrainerRaises, UploadSucceeds, UploadFails
  <2>2. PICK v \in Verdicts : Issue(Main, v, job) /\ pc' = "posting"
                              /\ posted' = posted \cup {<<job, v>>}
    BY <2>1 DEF PostVerdict
  <2>3. UNCHANGED <<remoteVars, job, trainerVars, shutdown, hb, cancelFlag, fate>>
        /\ uploaded' \subseteq Jobs /\ hbStop' \in [Jobs -> BOOLEAN]
    BY <1>11, <2>1 DEF SetupFails, TrainerRaises, UploadSucceeds, UploadFails, StopHeartbeat
  <2>4. /\ call' \in [Threads -> Calls] /\ call'[Main].op = v /\ call'[Main].job = job
        /\ call'[Main].phase = "sent" /\ \A j \in Jobs : call'[j] = call[j]
    <3>1. v \in Ops /\ Main \in Threads
      BY <1>1
    <3>2. Jobs \subseteq Threads \ {Main}
      OBVIOUS
    <3>3. /\ call' \in [Threads -> Calls] /\ call'[Main].op = v /\ call'[Main].job = job
          /\ call'[Main].phase = "sent"
          /\ \A u \in Threads \ {Main} : call'[u] = call[u]
      BY <2>1, <2>2, <3>1, IssueFacts
    <3> QED
      BY <3>2, <3>3
  <2>5. TypeOK' /\ JobHeld'
    BY <2>1, <2>2, <2>3, <2>4 DEF MainLocs
  <2>6. MainCall' /\ HeartbeatCall'
    BY <2>2, <2>3, <2>4
  <2> QED
    BY <2>5, <2>6
<1>12. CASE PostReturns
  <2>1. Consume(Main)
    BY <1>12 DEF PostReturns
  <2> QED
    BY <1>12, <2>1, ConsumeFacts DEF PostReturns, LeaveJob, MainLocs, Fates
<1> QED
  BY <1>2, <1>3, <1>4, <1>5, <1>6, <1>7, <1>8, <1>9, <1>10, <1>11, <1>12
  DEF MainStep, TrainerEnds

\* The heartbeat threads: one case per action (worker.py:66-76).
LEMMA ControlHeartbeat ==
  ASSUME Control, NEW j \in Jobs, HeartbeatStep(j)
  PROVE  Control'
<1> USE ThreadsAssumption, IdleIsCall
    DEF Control, TypeOK, JobHeld, MainCall, HeartbeatCall, remoteVars, serverVars,
        backlogVars, mainVars, trainerVars, runVars
<1>1. CASE HeartbeatBegins(j)
  <2>1. Issue(j, "heartbeat", j) /\ "heartbeat" \in Ops
    BY <1>1 DEF HeartbeatBegins, Ops
  <2> QED
    BY <1>1, <2>1, IssueFacts DEF HeartbeatBegins, HbLocs
<1>2. CASE HeartbeatReturns(j)
  <2>1. Consume(j)
    BY <1>2 DEF HeartbeatReturns
  <2>2. /\ call' \in [Threads -> Calls] /\ call'[j] = Idle
        /\ \A u \in Threads \ {j} : call'[u] = call[u]
    BY <2>1, ConsumeFacts
  <2>3. /\ UNCHANGED <<remoteVars, mainVars, hbStop, runVars>>
        /\ cancelFlag' \in [Jobs -> BOOLEAN]
        /\ hb' = [hb EXCEPT ![j] = "ended"] \/ hb' = [hb EXCEPT ![j] = "resting"]
    BY <1>2 DEF HeartbeatReturns
  <2>4. TypeOK' /\ JobHeld'
    BY <2>2, <2>3 DEF HbLocs
  <2>5. MainCall' /\ HeartbeatCall'
    BY <2>2, <2>3
  <2> QED
    BY <2>4, <2>5
<1>3. CASE HeartbeatExits(j) \/ HeartbeatWakes(j)
  BY <1>3 DEF HeartbeatExits, HeartbeatWakes, HbLocs
<1> QED
  BY <1>1, <1>2, <1>3 DEF HeartbeatStep

\* Late requests, users and signals change no thread.
LEMMA ControlOther ==
  ASSUME Control, Overdue \/ (\E j \in Jobs : Cancel(j)) \/ Signal \/ UNCHANGED vars
  PROVE  Control'
<1> USE DEF Control, TypeOK, JobHeld, MainCall, HeartbeatCall, vars, remoteVars, serverVars,
        clientVars, backlogVars, mainVars, trainerVars, hbVars, runVars
<1>1. CASE Overdue /\ LateVerdict
  BY <1>1 DEF Overdue, LateVerdict, Serve, ServeClaim, ServePoll, ServeVerdict, Statuses, Verdicts
<1>2. CASE Overdue /\ LateClaim
  <2>1. lateClaims' \in 0 .. MaxLateClaims
    BY <1>2, MaxLateClaimsAssumption DEF LateClaim
  <2> QED
    BY <1>2, <2>1 DEF Overdue, LateClaim, Serve, ServeClaim, Statuses, Verdicts
<1>3. CASE \E j \in Jobs : Cancel(j)
  BY <1>3 DEF Cancel, UserCancel, Statuses
<1>4. CASE Signal \/ UNCHANGED vars
  <2>1. TypeOK' /\ JobHeld'
    BY <1>4 DEF Signal
  <2>2. MainCall' /\ HeartbeatCall'
    BY <1>4 DEF Signal
  <2> QED
    BY <2>1, <2>2
<1>5. Overdue => (Overdue /\ LateVerdict) \/ (Overdue /\ LateClaim)
  BY DEF Overdue, LateStep
<1> HIDE DEF Control, vars
<1> QED
  BY <1>1, <1>2, <1>3, <1>4, <1>5

\* Every step keeps Control.
LEMMA ControlStep == Control /\ [Next]_vars => Control'
  BY ControlMain, ControlHeartbeat, ControlNetwork, ControlOther DEF Next

\* The type invariant and the control invariant of the worker, for every value of
\* the constants (worker.py:145-317, callbacks.py:182-205).
THEOREM ControlHolds == Spec => []Control
<1>1. Init => Control
  BY ControlInit
<1>2. Control /\ [Next]_vars => Control'
  BY ControlStep
<1> QED
  BY <1>1, <1>2, PTL DEF Spec

\* Every variable keeps its type, for every value of the constants (worker.py:145-317,
\* callbacks.py:182-205).
THEOREM TypeCorrect == Spec => []TypeOK
<1>1. Control => TypeOK
  BY DEF Control
<1> QED
  BY <1>1, ControlHolds, PTL

-----------------------------------------------------------------------------
(* The safety invariants of the worker, one step per action. *)

\* The main thread keeps the invariant: one case per action of main and _run_one_job
\* (worker.py:145-317).
LEMMA InvariantMain ==
  ASSUME IInv, Control', MainStep
  PROVE  IInv'
<1> USE ThreadsAssumption, NoJobAssumption, TrainersAssumption, IdleIsCall
    DEF IInv, Control, TypeOK, JobHeld, MainCall, HeartbeatCall, remoteVars, serverVars,
        backlogVars, trainerVars, hbVars, runVars, mainVars, Verdicts
<1>ops. {"claim", "heartbeat", "progress", "complete", "failed"} \subseteq Ops
  BY DEF Ops, Verdicts
<1>1. CASE PollClaim
  <2>1. /\ call'[Main].op = "claim" /\ call'[Main].job = NoJob
        /\ call'[Main].phase = "sent" /\ call'[Main].reply = NoJob
        /\ \A j \in Jobs : call'[j] = call[j]
    BY <1>1, <1>ops, IssueFacts DEF PollClaim
  <2>2. Fresh' /\ RunInProgress'
    BY <1>1, <2>1
    DEF PollClaim, Fresh, RunInProgress, Untouched, StopsHaveCause,
    CancelFlagHasCause, Answered, KeepGoing
  <2>3. VerdictsDecided' /\ SettledJobs' /\ OneVerdict' /\ CompletedHasArtifact' /\ SilentEndHasCause'
    BY <1>1, <2>1
    DEF PollClaim, VerdictsDecided, SettledJobs, OneVerdict, CompletedHasArtifact,
    SilentEndHasCause, RunInProgress, Fresh, Untouched, Settled, Answered
  <2>4. StopsHaveCause' /\ CancelFlagHasCause'
    BY <1>1, <2>1
    DEF PollClaim, StopsHaveCause, CancelFlagHasCause, Answered
  <2>5. OrphansHaveCause' /\ HeartbeatOutlivesOnlyCrash'
    BY <1>1, <2>1
    DEF PollClaim, OrphansHaveCause, HeartbeatOutlivesOnlyCrash, InHand, VerdictUnderWay,
    RunInProgress, SettledJobs, Settled, Answered, Idle
  <2> QED
    BY <2>2, <2>3, <2>4, <2>5 DEF IInv
<1>2. CASE ClaimReturns
  <2>1. /\ call'[Main] = Idle /\ call[Main].phase \in {"done", "raised"}
        /\ \A j \in Jobs : call'[j] = call[j]
    BY <1>2, ConsumeFacts DEF ClaimReturns
  <2>2. Fresh' /\ RunInProgress'
    BY <1>2, <2>1
    DEF ClaimReturns, Fresh, RunInProgress, Untouched, StopsHaveCause,
    CancelFlagHasCause, Answered, KeepGoing
  <2>3. VerdictsDecided' /\ SettledJobs' /\ OneVerdict' /\ CompletedHasArtifact' /\ SilentEndHasCause'
    BY <1>2, <2>1
    DEF ClaimReturns, VerdictsDecided, SettledJobs, OneVerdict, CompletedHasArtifact,
    SilentEndHasCause, RunInProgress, Fresh, Untouched, Settled, Answered
  <2>4. StopsHaveCause' /\ CancelFlagHasCause'
    BY <1>2, <2>1
    DEF ClaimReturns, StopsHaveCause, CancelFlagHasCause, Answered
  <2>5. OrphansHaveCause' /\ HeartbeatOutlivesOnlyCrash'
    BY <1>2, <2>1
    DEF ClaimReturns, OrphansHaveCause, HeartbeatOutlivesOnlyCrash, InHand,
    VerdictUnderWay, RunInProgress, SettledJobs, Settled, Answered, Idle
  <2> QED
    BY <2>2, <2>3, <2>4, <2>5 DEF IInv
<1>3. CASE WaitEnds
  <2>1. Fresh' /\ RunInProgress'
    BY <1>3
    DEF WaitEnds, Fresh, RunInProgress, Untouched, StopsHaveCause,
    CancelFlagHasCause, Answered, KeepGoing
  <2>2. VerdictsDecided' /\ SettledJobs' /\ OneVerdict' /\ CompletedHasArtifact' /\ SilentEndHasCause'
    BY <1>3
    DEF WaitEnds, VerdictsDecided, SettledJobs, OneVerdict, CompletedHasArtifact,
    SilentEndHasCause, RunInProgress, Fresh, Untouched, Settled, Answered
  <2>3. StopsHaveCause' /\ CancelFlagHasCause'
    BY <1>3
    DEF WaitEnds, StopsHaveCause, CancelFlagHasCause, Answered
  <2>4. OrphansHaveCause' /\ HeartbeatOutlivesOnlyCrash'
    BY <1>3
    DEF WaitEnds, OrphansHaveCause, HeartbeatOutlivesOnlyCrash, InHand, VerdictUnderWay,
    RunInProgress, SettledJobs, Settled, Answered, Idle
  <2> QED
    BY <2>1, <2>2, <2>3, <2>4 DEF IInv
<1>4. CASE StopLoop
  <2>1. Fresh' /\ RunInProgress'
    BY <1>4
    DEF StopLoop, Fresh, RunInProgress, Untouched, StopsHaveCause,
    CancelFlagHasCause, Answered, KeepGoing
  <2>2. VerdictsDecided' /\ SettledJobs' /\ OneVerdict' /\ CompletedHasArtifact' /\ SilentEndHasCause'
    BY <1>4
    DEF StopLoop, VerdictsDecided, SettledJobs, OneVerdict, CompletedHasArtifact,
    SilentEndHasCause, RunInProgress, Fresh, Untouched, Settled, Answered
  <2>3. StopsHaveCause' /\ CancelFlagHasCause'
    BY <1>4
    DEF StopLoop, StopsHaveCause, CancelFlagHasCause, Answered
  <2>4. OrphansHaveCause' /\ HeartbeatOutlivesOnlyCrash'
    BY <1>4
    DEF StopLoop, OrphansHaveCause, HeartbeatOutlivesOnlyCrash, InHand, VerdictUnderWay,
    RunInProgress, SettledJobs, Settled, Answered, Idle
  <2> QED
    BY <2>1, <2>2, <2>3, <2>4 DEF IInv
<1>5. CASE SetupFails
  <2>1. /\ call'[Main].op = "failed" /\ call'[Main].job = job
        /\ call'[Main].phase = "sent" /\ call'[Main].reply = NoJob
        /\ \A j \in Jobs : call'[j] = call[j]
    BY <1>5, <1>ops, IssueFacts DEF SetupFails, PostVerdict
  <2>2. Fresh' /\ RunInProgress'
    BY <1>5, <2>1
    DEF SetupFails, PostVerdict, Fresh, RunInProgress, Untouched,
    StopsHaveCause, CancelFlagHasCause, Answered, KeepGoing
  <2>3. VerdictsDecided' /\ SettledJobs' /\ OneVerdict' /\ CompletedHasArtifact' /\ SilentEndHasCause'
    BY <1>5, <2>1
    DEF SetupFails, PostVerdict, VerdictsDecided, SettledJobs, OneVerdict,
    CompletedHasArtifact, SilentEndHasCause, RunInProgress, Fresh, Untouched, Settled,
    Answered
  <2>4. StopsHaveCause' /\ CancelFlagHasCause'
    BY <1>5, <2>1
    DEF SetupFails, PostVerdict, StopsHaveCause, CancelFlagHasCause, Answered
  <2>5. OrphansHaveCause' /\ HeartbeatOutlivesOnlyCrash'
    BY <1>5, <2>1
    DEF SetupFails, PostVerdict, OrphansHaveCause, HeartbeatOutlivesOnlyCrash, InHand,
    VerdictUnderWay, RunInProgress, SettledJobs, Settled, Answered, Idle
  <2> QED
    BY <2>2, <2>3, <2>4, <2>5 DEF IInv
<1>6. CASE SetupSucceeds
  <2>1. Fresh' /\ RunInProgress'
    BY <1>6
    DEF SetupSucceeds, Fresh, RunInProgress, Untouched, StopsHaveCause,
    CancelFlagHasCause, Answered, KeepGoing
  <2>2. VerdictsDecided' /\ SettledJobs' /\ OneVerdict' /\ CompletedHasArtifact' /\ SilentEndHasCause'
    BY <1>6
    DEF SetupSucceeds, VerdictsDecided, SettledJobs, OneVerdict, CompletedHasArtifact,
    SilentEndHasCause, RunInProgress, Fresh, Untouched, Settled, Answered
  <2>3. StopsHaveCause' /\ CancelFlagHasCause'
    BY <1>6
    DEF SetupSucceeds, StopsHaveCause, CancelFlagHasCause, Answered
  <2>4. OrphansHaveCause' /\ HeartbeatOutlivesOnlyCrash'
    BY <1>6
    DEF SetupSucceeds, OrphansHaveCause, HeartbeatOutlivesOnlyCrash, InHand,
    VerdictUnderWay, RunInProgress, SettledJobs, Settled, Answered, Idle
  <2> QED
    BY <2>1, <2>2, <2>3, <2>4 DEF IInv
<1>7. CASE ScratchReady
  <2>1. Fresh' /\ RunInProgress'
    BY <1>7
    DEF ScratchReady, Fresh, RunInProgress, Untouched, StopsHaveCause,
    CancelFlagHasCause, Answered, KeepGoing
  <2>2. VerdictsDecided' /\ SettledJobs' /\ OneVerdict' /\ CompletedHasArtifact' /\ SilentEndHasCause'
    BY <1>7
    DEF ScratchReady, VerdictsDecided, SettledJobs, OneVerdict, CompletedHasArtifact,
    SilentEndHasCause, RunInProgress, Fresh, Untouched, Settled, Answered
  <2>3. StopsHaveCause' /\ CancelFlagHasCause'
    BY <1>7
    DEF ScratchReady, StopsHaveCause, CancelFlagHasCause, Answered
  <2>4. OrphansHaveCause' /\ HeartbeatOutlivesOnlyCrash'
    BY <1>7
    DEF ScratchReady, OrphansHaveCause, HeartbeatOutlivesOnlyCrash, InHand,
    VerdictUnderWay, RunInProgress, SettledJobs, Settled, Answered, Idle
  <2> QED
    BY <2>1, <2>2, <2>3, <2>4 DEF IInv
<1>8. CASE ScratchFails
  <2>1. Fresh' /\ RunInProgress'
    BY <1>8
    DEF ScratchFails, LeaveJob, Fresh, RunInProgress, Untouched,
    StopsHaveCause, CancelFlagHasCause, Answered, KeepGoing
  <2>2. VerdictsDecided' /\ SettledJobs' /\ OneVerdict' /\ CompletedHasArtifact' /\ SilentEndHasCause'
    BY <1>8
    DEF ScratchFails, LeaveJob, VerdictsDecided, SettledJobs, OneVerdict,
    CompletedHasArtifact, SilentEndHasCause, RunInProgress, Fresh, Untouched, Settled,
    Answered
  <2>3. StopsHaveCause' /\ CancelFlagHasCause'
    BY <1>8
    DEF ScratchFails, LeaveJob, StopsHaveCause, CancelFlagHasCause, Answered
  <2>4. OrphansHaveCause' /\ HeartbeatOutlivesOnlyCrash'
    BY <1>8
    DEF ScratchFails, LeaveJob, OrphansHaveCause, HeartbeatOutlivesOnlyCrash, InHand,
    VerdictUnderWay, RunInProgress, SettledJobs, Settled, Answered, Idle
  <2> QED
    BY <2>1, <2>2, <2>3, <2>4 DEF IInv
<1>9. CASE Report
  <2>1. /\ call'[Main].op = "progress" /\ call'[Main].job = job
        /\ call'[Main].phase = "sent" /\ call'[Main].reply = NoJob
        /\ \A j \in Jobs : call'[j] = call[j]
    BY <1>9, <1>ops, IssueFacts DEF Report
  <2>2. Fresh' /\ RunInProgress'
    BY <1>9, <2>1
    DEF Report, Fresh, RunInProgress, Untouched, StopsHaveCause,
    CancelFlagHasCause, Answered, KeepGoing
  <2>3. VerdictsDecided' /\ SettledJobs' /\ OneVerdict' /\ CompletedHasArtifact' /\ SilentEndHasCause'
    BY <1>9, <2>1
    DEF Report, VerdictsDecided, SettledJobs, OneVerdict, CompletedHasArtifact,
    SilentEndHasCause, RunInProgress, Fresh, Untouched, Settled, Answered
  <2>4. StopsHaveCause' /\ CancelFlagHasCause'
    BY <1>9, <2>1
    DEF Report, StopsHaveCause, CancelFlagHasCause, Answered
  <2>5. OrphansHaveCause' /\ HeartbeatOutlivesOnlyCrash'
    BY <1>9, <2>1
    DEF Report, OrphansHaveCause, HeartbeatOutlivesOnlyCrash, InHand, VerdictUnderWay,
    RunInProgress, SettledJobs, Settled, Answered, Idle
  <2> QED
    BY <2>2, <2>3, <2>4, <2>5 DEF IInv
<1>10. CASE ReportReturns
  <2>1. /\ call'[Main] = Idle /\ call[Main].phase \in {"done", "raised"}
        /\ \A j \in Jobs : call'[j] = call[j]
    BY <1>10, ConsumeFacts DEF ReportReturns
  <2>2. Fresh' /\ RunInProgress'
    BY <1>10, <2>1
    DEF ReportReturns, Fresh, RunInProgress, Untouched, StopsHaveCause,
    CancelFlagHasCause, Answered, KeepGoing
  <2>3. VerdictsDecided' /\ SettledJobs' /\ OneVerdict' /\ CompletedHasArtifact' /\ SilentEndHasCause'
    BY <1>10, <2>1
    DEF ReportReturns, VerdictsDecided, SettledJobs, OneVerdict, CompletedHasArtifact,
    SilentEndHasCause, RunInProgress, Fresh, Untouched, Settled, Answered
  <2>4. StopsHaveCause' /\ CancelFlagHasCause'
    BY <1>10, <2>1
    DEF ReportReturns, StopsHaveCause, CancelFlagHasCause, Answered
  <2>5. OrphansHaveCause' /\ HeartbeatOutlivesOnlyCrash'
    BY <1>10, <2>1
    DEF ReportReturns, OrphansHaveCause, HeartbeatOutlivesOnlyCrash, InHand,
    VerdictUnderWay, RunInProgress, SettledJobs, Settled, Answered, Idle
  <2> QED
    BY <2>2, <2>3, <2>4, <2>5 DEF IInv
<1>11. CASE StartReplay
  <2>1. Fresh' /\ RunInProgress'
    BY <1>11
    DEF StartReplay, Fresh, RunInProgress, Untouched, StopsHaveCause,
    CancelFlagHasCause, Answered, KeepGoing
  <2>2. VerdictsDecided' /\ SettledJobs' /\ OneVerdict' /\ CompletedHasArtifact' /\ SilentEndHasCause'
    BY <1>11
    DEF StartReplay, VerdictsDecided, SettledJobs, OneVerdict, CompletedHasArtifact,
    SilentEndHasCause, RunInProgress, Fresh, Untouched, Settled, Answered
  <2>3. StopsHaveCause' /\ CancelFlagHasCause'
    BY <1>11
    DEF StartReplay, StopsHaveCause, CancelFlagHasCause, Answered
  <2>4. OrphansHaveCause' /\ HeartbeatOutlivesOnlyCrash'
    BY <1>11
    DEF StartReplay, OrphansHaveCause, HeartbeatOutlivesOnlyCrash, InHand, VerdictUnderWay,
    RunInProgress, SettledJobs, Settled, Answered, Idle
  <2> QED
    BY <2>1, <2>2, <2>3, <2>4 DEF IInv
<1>12. CASE TrainerCancels
  <2>1. Fresh' /\ RunInProgress'
    BY <1>12
    DEF TrainerCancels, LeaveJob, StopHeartbeat, Fresh, RunInProgress,
    Untouched, StopsHaveCause, CancelFlagHasCause, Answered, KeepGoing
  <2>2. VerdictsDecided' /\ SettledJobs' /\ OneVerdict' /\ CompletedHasArtifact' /\ SilentEndHasCause'
    BY <1>12
    DEF TrainerCancels, LeaveJob, StopHeartbeat, VerdictsDecided, SettledJobs, OneVerdict,
    CompletedHasArtifact, SilentEndHasCause, RunInProgress, Fresh, Untouched, Settled,
    Answered
  <2>3. StopsHaveCause' /\ CancelFlagHasCause'
    BY <1>12
    DEF TrainerCancels, LeaveJob, StopHeartbeat, StopsHaveCause, CancelFlagHasCause,
    Answered
  <2>4. OrphansHaveCause' /\ HeartbeatOutlivesOnlyCrash'
    BY <1>12
    DEF TrainerCancels, LeaveJob, StopHeartbeat, OrphansHaveCause,
    HeartbeatOutlivesOnlyCrash, InHand, VerdictUnderWay, RunInProgress, SettledJobs,
    Settled, Answered, Idle
  <2> QED
    BY <2>1, <2>2, <2>3, <2>4 DEF IInv
<1>13. CASE TrainerRaises
  <2>1. /\ call'[Main].op = "failed" /\ call'[Main].job = job
        /\ call'[Main].phase = "sent" /\ call'[Main].reply = NoJob
        /\ \A j \in Jobs : call'[j] = call[j]
    BY <1>13, <1>ops, IssueFacts DEF TrainerRaises, PostVerdict
  <2>2. Fresh' /\ RunInProgress'
    BY <1>13, <2>1
    DEF TrainerRaises, PostVerdict, StopHeartbeat, Fresh, RunInProgress,
    Untouched, StopsHaveCause, CancelFlagHasCause, Answered, KeepGoing
  <2>3. VerdictsDecided' /\ SettledJobs' /\ OneVerdict' /\ CompletedHasArtifact' /\ SilentEndHasCause'
    BY <1>13, <2>1
    DEF TrainerRaises, PostVerdict, StopHeartbeat, VerdictsDecided, SettledJobs,
    OneVerdict, CompletedHasArtifact, SilentEndHasCause, RunInProgress, Fresh, Untouched,
    Settled, Answered
  <2>4. StopsHaveCause' /\ CancelFlagHasCause'
    BY <1>13, <2>1
    DEF TrainerRaises, PostVerdict, StopHeartbeat, StopsHaveCause, CancelFlagHasCause,
    Answered
  <2>5. OrphansHaveCause' /\ HeartbeatOutlivesOnlyCrash'
    BY <1>13, <2>1
    DEF TrainerRaises, PostVerdict, StopHeartbeat, OrphansHaveCause,
    HeartbeatOutlivesOnlyCrash, InHand, VerdictUnderWay, RunInProgress, SettledJobs,
    Settled, Answered, Idle
  <2> QED
    BY <2>2, <2>3, <2>4, <2>5 DEF IInv
<1>14. CASE TrainerReturns
  <2>1. Fresh' /\ RunInProgress'
    BY <1>14
    DEF TrainerReturns, StopHeartbeat, Fresh, RunInProgress, Untouched,
    StopsHaveCause, CancelFlagHasCause, Answered, KeepGoing
  <2>2. VerdictsDecided' /\ SettledJobs' /\ OneVerdict' /\ CompletedHasArtifact' /\ SilentEndHasCause'
    BY <1>14
    DEF TrainerReturns, StopHeartbeat, VerdictsDecided, SettledJobs, OneVerdict,
    CompletedHasArtifact, SilentEndHasCause, RunInProgress, Fresh, Untouched, Settled,
    Answered
  <2>3. StopsHaveCause' /\ CancelFlagHasCause'
    BY <1>14
    DEF TrainerReturns, StopHeartbeat, StopsHaveCause, CancelFlagHasCause, Answered
  <2>4. OrphansHaveCause' /\ HeartbeatOutlivesOnlyCrash'
    BY <1>14
    DEF TrainerReturns, StopHeartbeat, OrphansHaveCause, HeartbeatOutlivesOnlyCrash,
    InHand, VerdictUnderWay, RunInProgress, SettledJobs, Settled, Answered, Idle
  <2> QED
    BY <2>1, <2>2, <2>3, <2>4 DEF IInv
<1>15. CASE UploadSucceeds
  <2>1. /\ call'[Main].op = "complete" /\ call'[Main].job = job
        /\ call'[Main].phase = "sent" /\ call'[Main].reply = NoJob
        /\ \A j \in Jobs : call'[j] = call[j]
    BY <1>15, <1>ops, IssueFacts DEF UploadSucceeds, PostVerdict
  <2>2. Fresh' /\ RunInProgress'
    BY <1>15, <2>1
    DEF UploadSucceeds, PostVerdict, Fresh, RunInProgress, Untouched,
    StopsHaveCause, CancelFlagHasCause, Answered, KeepGoing
  <2>3. VerdictsDecided' /\ SettledJobs' /\ OneVerdict' /\ CompletedHasArtifact' /\ SilentEndHasCause'
    BY <1>15, <2>1
    DEF UploadSucceeds, PostVerdict, VerdictsDecided, SettledJobs, OneVerdict,
    CompletedHasArtifact, SilentEndHasCause, RunInProgress, Fresh, Untouched, Settled,
    Answered
  <2>4. StopsHaveCause' /\ CancelFlagHasCause'
    BY <1>15, <2>1
    DEF UploadSucceeds, PostVerdict, StopsHaveCause, CancelFlagHasCause, Answered
  <2>5. OrphansHaveCause' /\ HeartbeatOutlivesOnlyCrash'
    BY <1>15, <2>1
    DEF UploadSucceeds, PostVerdict, OrphansHaveCause, HeartbeatOutlivesOnlyCrash, InHand,
    VerdictUnderWay, RunInProgress, SettledJobs, Settled, Answered, Idle
  <2> QED
    BY <2>2, <2>3, <2>4, <2>5 DEF IInv
<1>16. CASE UploadFails
  <2>1. /\ call'[Main].op = "failed" /\ call'[Main].job = job
        /\ call'[Main].phase = "sent" /\ call'[Main].reply = NoJob
        /\ \A j \in Jobs : call'[j] = call[j]
    BY <1>16, <1>ops, IssueFacts DEF UploadFails, PostVerdict
  <2>2. Fresh' /\ RunInProgress'
    BY <1>16, <2>1
    DEF UploadFails, PostVerdict, Fresh, RunInProgress, Untouched,
    StopsHaveCause, CancelFlagHasCause, Answered, KeepGoing
  <2>3. VerdictsDecided' /\ SettledJobs' /\ OneVerdict' /\ CompletedHasArtifact' /\ SilentEndHasCause'
    BY <1>16, <2>1
    DEF UploadFails, PostVerdict, VerdictsDecided, SettledJobs, OneVerdict,
    CompletedHasArtifact, SilentEndHasCause, RunInProgress, Fresh, Untouched, Settled,
    Answered
  <2>4. StopsHaveCause' /\ CancelFlagHasCause'
    BY <1>16, <2>1
    DEF UploadFails, PostVerdict, StopsHaveCause, CancelFlagHasCause, Answered
  <2>5. OrphansHaveCause' /\ HeartbeatOutlivesOnlyCrash'
    BY <1>16, <2>1
    DEF UploadFails, PostVerdict, OrphansHaveCause, HeartbeatOutlivesOnlyCrash, InHand,
    VerdictUnderWay, RunInProgress, SettledJobs, Settled, Answered, Idle
  <2> QED
    BY <2>2, <2>3, <2>4, <2>5 DEF IInv
<1>17. CASE PostReturns
  <2>1. /\ call'[Main] = Idle /\ call[Main].phase \in {"done", "raised"}
        /\ \A j \in Jobs : call'[j] = call[j]
    BY <1>17, ConsumeFacts DEF PostReturns
  <2>2. Fresh' /\ RunInProgress'
    BY <1>17, <2>1
    DEF PostReturns, LeaveJob, Fresh, RunInProgress, Untouched,
    StopsHaveCause, CancelFlagHasCause, Answered, KeepGoing
  <2>3. VerdictsDecided' /\ SettledJobs' /\ OneVerdict' /\ CompletedHasArtifact' /\ SilentEndHasCause'
    BY <1>17, <2>1
    DEF PostReturns, LeaveJob, VerdictsDecided, SettledJobs, OneVerdict,
    CompletedHasArtifact, SilentEndHasCause, RunInProgress, Fresh, Untouched, Settled,
    Answered
  <2>4. StopsHaveCause' /\ CancelFlagHasCause'
    BY <1>17, <2>1
    DEF PostReturns, LeaveJob, StopsHaveCause, CancelFlagHasCause, Answered
  <2>5. OrphansHaveCause' /\ HeartbeatOutlivesOnlyCrash'
    BY <1>17, <2>1
    DEF PostReturns, LeaveJob, OrphansHaveCause, HeartbeatOutlivesOnlyCrash, InHand,
    VerdictUnderWay, RunInProgress, SettledJobs, Settled, Answered, Idle
  <2> QED
    BY <2>2, <2>3, <2>4, <2>5 DEF IInv
<1> QED
  BY <1>1, <1>2, <1>3, <1>4, <1>5, <1>6, <1>7, <1>8, <1>9, <1>10, <1>11, <1>12, <1>13,
  <1>14, <1>15, <1>16, <1>17 DEF MainStep, TrainerEnds

\* The heartbeat threads keep the invariant, those of earlier jobs included
\* (worker.py:66-79).
LEMMA InvariantHeartbeat ==
  ASSUME IInv, Control', NEW j \in Jobs, HeartbeatStep(j)
  PROVE  IInv'
<1> USE ThreadsAssumption, NoJobAssumption, TrainersAssumption, IdleIsCall
    DEF IInv, Control, TypeOK, JobHeld, MainCall, HeartbeatCall, remoteVars, serverVars,
        backlogVars, trainerVars, hbVars, runVars, mainVars, Verdicts
<1>1. CASE HeartbeatBegins(j)
  <2>1. /\ call'[j].op = "heartbeat" /\ call'[j].job = j /\ call'[j].phase = "sent"
        /\ \A u \in Threads \ {j} : call'[u] = call[u]
    BY <1>1, IssueFacts DEF HeartbeatBegins, Ops
  <2>2. Fresh' /\ RunInProgress'
    BY <1>1, <2>1
    DEF HeartbeatBegins, Fresh, RunInProgress, Untouched, StopsHaveCause,
    CancelFlagHasCause, Answered, KeepGoing
  <2>3. VerdictsDecided' /\ SettledJobs' /\ OneVerdict' /\ CompletedHasArtifact' /\ SilentEndHasCause'
    BY <1>1, <2>1
    DEF HeartbeatBegins, VerdictsDecided, SettledJobs, OneVerdict, CompletedHasArtifact,
    SilentEndHasCause, RunInProgress, Fresh, Untouched, Settled, Answered
  <2>4. StopsHaveCause' /\ CancelFlagHasCause'
    BY <1>1, <2>1
    DEF HeartbeatBegins, StopsHaveCause, CancelFlagHasCause, Answered
  <2>5. OrphansHaveCause' /\ HeartbeatOutlivesOnlyCrash'
    BY <1>1, <2>1
    DEF HeartbeatBegins, OrphansHaveCause, HeartbeatOutlivesOnlyCrash, InHand,
    VerdictUnderWay, RunInProgress, SettledJobs, Settled, Answered, Idle
  <2> QED
    BY <2>2, <2>3, <2>4, <2>5 DEF IInv
<1>2. CASE HeartbeatExits(j)
  <2>1. Fresh' /\ RunInProgress'
    BY <1>2
    DEF HeartbeatExits, Fresh, RunInProgress, Untouched, StopsHaveCause,
    CancelFlagHasCause, Answered, KeepGoing
  <2>2. VerdictsDecided' /\ SettledJobs' /\ OneVerdict' /\ CompletedHasArtifact' /\ SilentEndHasCause'
    BY <1>2
    DEF HeartbeatExits, VerdictsDecided, SettledJobs, OneVerdict, CompletedHasArtifact,
    SilentEndHasCause, RunInProgress, Fresh, Untouched, Settled, Answered
  <2>3. StopsHaveCause' /\ CancelFlagHasCause'
    BY <1>2
    DEF HeartbeatExits, StopsHaveCause, CancelFlagHasCause, Answered
  <2>4. OrphansHaveCause' /\ HeartbeatOutlivesOnlyCrash'
    BY <1>2
    DEF HeartbeatExits, OrphansHaveCause, HeartbeatOutlivesOnlyCrash, InHand,
    VerdictUnderWay, RunInProgress, SettledJobs, Settled, Answered, Idle
  <2> QED
    BY <2>1, <2>2, <2>3, <2>4 DEF IInv
<1>3. CASE HeartbeatReturns(j)
  <2>1. /\ call'[j] = Idle /\ call[j].phase \in {"done", "raised"}
        /\ \A u \in Threads \ {j} : call'[u] = call[u]
    BY <1>3, ConsumeFacts DEF HeartbeatReturns
  <2>2. Fresh' /\ RunInProgress'
    <3>1. /\ hb' = [hb EXCEPT ![j] = "ended"] \/ hb' = [hb EXCEPT ![j] = "resting"]
          /\ hb[j] = "beating" /\ call'[Main] = call[Main]
          /\ UNCHANGED <<remoteVars, mainVars, hbStop, runVars>>
      BY <1>3, <2>1 DEF HeartbeatReturns
    <3>2. Fresh'
      BY <3>1 DEF Fresh, Untouched
    <3>3. RunInProgress'
      BY <3>1 DEF RunInProgress, Untouched
    <3> QED
      BY <3>2, <3>3
  <2>3. VerdictsDecided' /\ SettledJobs' /\ OneVerdict' /\ CompletedHasArtifact' /\ SilentEndHasCause'
    BY <1>3, <2>1
    DEF HeartbeatReturns, VerdictsDecided, SettledJobs, OneVerdict, CompletedHasArtifact,
    SilentEndHasCause, RunInProgress, Fresh, Untouched, Settled, Answered
  <2>4. StopsHaveCause' /\ CancelFlagHasCause'
    BY <1>3, <2>1
    DEF HeartbeatReturns, StopsHaveCause, CancelFlagHasCause, Answered
  <2>5. OrphansHaveCause' /\ HeartbeatOutlivesOnlyCrash'
    BY <1>3, <2>1
    DEF HeartbeatReturns, OrphansHaveCause, HeartbeatOutlivesOnlyCrash, InHand,
    VerdictUnderWay, RunInProgress, SettledJobs, Settled, Answered, Idle
  <2> QED
    BY <2>2, <2>3, <2>4, <2>5 DEF IInv
<1>4. CASE HeartbeatWakes(j)
  <2>1. Fresh' /\ RunInProgress'
    BY <1>4
    DEF HeartbeatWakes, Fresh, RunInProgress, Untouched, StopsHaveCause,
    CancelFlagHasCause, Answered, KeepGoing
  <2>2. VerdictsDecided' /\ SettledJobs' /\ OneVerdict' /\ CompletedHasArtifact' /\ SilentEndHasCause'
    BY <1>4
    DEF HeartbeatWakes, VerdictsDecided, SettledJobs, OneVerdict, CompletedHasArtifact,
    SilentEndHasCause, RunInProgress, Fresh, Untouched, Settled, Answered
  <2>3. StopsHaveCause' /\ CancelFlagHasCause'
    BY <1>4
    DEF HeartbeatWakes, StopsHaveCause, CancelFlagHasCause, Answered
  <2>4. OrphansHaveCause' /\ HeartbeatOutlivesOnlyCrash'
    BY <1>4
    DEF HeartbeatWakes, OrphansHaveCause, HeartbeatOutlivesOnlyCrash, InHand,
    VerdictUnderWay, RunInProgress, SettledJobs, Settled, Answered, Idle
  <2> QED
    BY <2>1, <2>2, <2>3, <2>4 DEF IInv
<1> QED
  BY <1>1, <1>2, <1>3, <1>4 DEF HeartbeatStep

\* Who is waiting for an answer, and for which.
LEMMA Callers ==
  ASSUME Control, NEW t \in Threads, InFlight(t)
  PROVE  \/ t = Main /\ pc = "claiming" /\ call[t].op = "claim"
         \/ t = Main /\ pc = "reporting" /\ call[t].op = "progress" /\ call[t].job = job
         \/ t = Main /\ pc = "posting" /\ call[t].op \in Verdicts /\ call[t].job = job
         \/ t \in Jobs /\ call[t].op = "heartbeat" /\ call[t].job = t
  BY ThreadsAssumption, IdleIsCall DEF Control, MainCall, HeartbeatCall, InFlight

\* The network keeps the invariant: every loss and repetition of a request or an answer
\* (callbacks.py:182-205).
LEMMA InvariantNetwork ==
  ASSUME IInv, Control', NEW t \in Threads, NetworkStep(t)
  PROVE  IInv'
<1> USE ThreadsAssumption, NoJobAssumption, TrainersAssumption, IdleIsCall
    DEF IInv, Control, TypeOK, JobHeld, MainCall, HeartbeatCall, remoteVars, serverVars,
        backlogVars, trainerVars, hbVars, runVars, mainVars, Verdicts
<1>frame. UNCHANGED <<pc, job, stage, told, shutdown, hb, hbStop, cancelFlag,
                      uploaded, posted, fate>>
  BY DEF NetworkStep
<1>types. CallMoves(t) /\ InFlight(t) /\ userCancelled' = userCancelled
  BY CallStepTypes DEF NetworkStep
<1>who. \/ t = Main /\ pc = "claiming" /\ call[t].op = "claim"
        \/ t = Main /\ pc = "reporting" /\ call[t].op = "progress" /\ call[t].job = job
        \/ t = Main /\ pc = "posting" /\ call[t].op \in Verdicts /\ call[t].job = job
        \/ t \in Jobs /\ call[t].op = "heartbeat" /\ call[t].job = t
  BY <1>types, Callers
<1>attempt. call[t].attempt \in 1 .. MaxRetries /\ call[t].reply \in Replies
            /\ NoJob \in Replies
  BY CallFields DEF Replies
<1>1. CASE ServerHandles(t)
  <2>1. PICK reply \in Replies : /\ Serve(call[t].op, call[t].job, reply)
                                 /\ Reaches(t, call[t].attempt, "served", reply)
    BY <1>1 DEF ServerHandles
  <2>2. call'[t].phase = "served" /\ call'[t].reply = reply /\ call[t].phase = "sent"
        /\ UNCHANGED <<late, lateClaims, unseen>>
    BY <1>1, <1>attempt, <2>1, ReachesFacts DEF ServerHandles
  <2>3. CASE t = Main /\ pc = "claiming" /\ call[t].op = "claim"
    <3>1. ServeClaim(reply)
      BY <2>1, <2>3 DEF Serve
    <3>2. Fresh' /\ RunInProgress'
      BY <1>frame, <1>types, <2>2, <2>3, <3>1
      DEF CallMoves, ServeClaim, Fresh, RunInProgress, Untouched, Statuses
    <3>3. VerdictsDecided' /\ SettledJobs' /\ OneVerdict' /\ CompletedHasArtifact'
          /\ SilentEndHasCause'
      BY <1>frame, <1>types, <2>2, <2>3, <3>1
      DEF CallMoves, ServeClaim, VerdictsDecided, SettledJobs, OneVerdict,
          CompletedHasArtifact, SilentEndHasCause, Settled, Answered
    <3>4. StopsHaveCause' /\ CancelFlagHasCause'
      BY <1>frame, <1>types, <2>2, <2>3, <3>1
      DEF CallMoves, ServeClaim, StopsHaveCause, CancelFlagHasCause, Answered
    <3>5. OrphansHaveCause' /\ HeartbeatOutlivesOnlyCrash'
      BY <1>frame, <1>types, <2>2, <2>3, <3>1
      DEF CallMoves, ServeClaim, OrphansHaveCause, HeartbeatOutlivesOnlyCrash, InHand,
          VerdictUnderWay, Answered
    <3> QED
      BY <3>2, <3>3, <3>4, <3>5
  <2>4. CASE t = Main /\ pc = "posting" /\ call[t].op \in Verdicts /\ call[t].job = job
    <3>1. ServeVerdict(call[t].op, job, reply)
      BY <2>1, <2>4 DEF Serve
    <3>2. Fresh' /\ RunInProgress'
      BY <1>frame, <1>types, <2>2, <2>4, <3>1
      DEF CallMoves, ServeVerdict, Fresh, RunInProgress, Untouched
    <3>3. VerdictsDecided' /\ SettledJobs' /\ OneVerdict' /\ CompletedHasArtifact'
          /\ SilentEndHasCause'
      BY <1>frame, <1>types, <2>2, <2>4, <3>1
      DEF CallMoves, ServeVerdict, VerdictsDecided, SettledJobs, OneVerdict,
          CompletedHasArtifact, SilentEndHasCause, Settled, Answered
    <3>4. StopsHaveCause' /\ CancelFlagHasCause'
      BY <1>frame, <1>types, <2>2, <2>4, <3>1
      DEF CallMoves, ServeVerdict, StopsHaveCause, CancelFlagHasCause, Answered
    <3>5. OrphansHaveCause' /\ HeartbeatOutlivesOnlyCrash'
      BY <1>frame, <1>types, <2>2, <2>4, <3>1
      DEF CallMoves, ServeVerdict, OrphansHaveCause, HeartbeatOutlivesOnlyCrash, InHand,
          VerdictUnderWay
    <3> QED
      BY <3>2, <3>3, <3>4, <3>5
  <2>5. CASE \/ t = Main /\ pc = "reporting" /\ call[t].op = "progress" /\ call[t].job = job
             \/ t \in Jobs /\ call[t].op = "heartbeat" /\ call[t].job = t
    <3>1. ServePoll(call[t].job, reply)
      BY <2>1, <2>5 DEF Serve
    <3>2. Fresh' /\ RunInProgress'
      BY <1>frame, <1>types, <2>2, <2>5, <3>1
      DEF CallMoves, ServePoll, Fresh, RunInProgress, Untouched
    <3>3. VerdictsDecided' /\ SettledJobs' /\ OneVerdict' /\ CompletedHasArtifact'
          /\ SilentEndHasCause'
      BY <1>frame, <1>types, <2>2, <2>5, <3>1
      DEF CallMoves, ServePoll, VerdictsDecided, SettledJobs, OneVerdict,
          CompletedHasArtifact, SilentEndHasCause, Settled, Answered
    <3>4. StopsHaveCause' /\ CancelFlagHasCause'
      BY <1>frame, <1>types, <2>2, <2>5, <3>1
      DEF CallMoves, ServePoll, StopsHaveCause, CancelFlagHasCause, Answered
    <3>5. OrphansHaveCause' /\ HeartbeatOutlivesOnlyCrash'
      BY <1>frame, <1>types, <2>2, <2>5, <3>1
      DEF CallMoves, ServePoll, OrphansHaveCause, HeartbeatOutlivesOnlyCrash, InHand,
          VerdictUnderWay
    <3> QED
      BY <3>2, <3>3, <3>4, <3>5
  <2> QED
    BY <1>who, <2>3, <2>4, <2>5
<1>2. CASE ReplyArrives(t)
  <2>1. /\ call'[t].phase = "done" /\ call'[t].reply = call[t].reply
        /\ call[t].phase = "served" /\ UNCHANGED <<serverVars, late, lateClaims, unseen>>
    BY <1>2, <1>attempt, ReachesFacts DEF ReplyArrives
  <2>2. Fresh' /\ RunInProgress'
    BY <1>frame, <1>types, <1>who, <2>1
    DEF CallMoves, Fresh, RunInProgress, Untouched
  <2>3. VerdictsDecided' /\ SettledJobs' /\ OneVerdict' /\ CompletedHasArtifact'
        /\ SilentEndHasCause'
    BY <1>frame, <1>types, <1>who, <2>1
    DEF CallMoves, VerdictsDecided, SettledJobs, OneVerdict, CompletedHasArtifact,
        SilentEndHasCause, Settled, Answered
  <2>4. StopsHaveCause' /\ CancelFlagHasCause'
    BY <1>frame, <1>types, <1>who, <2>1
    DEF CallMoves, StopsHaveCause, CancelFlagHasCause, Answered
  <2>5. OrphansHaveCause' /\ HeartbeatOutlivesOnlyCrash'
    BY <1>frame, <1>types, <1>who, <2>1
    DEF CallMoves, OrphansHaveCause, HeartbeatOutlivesOnlyCrash, InHand, VerdictUnderWay
  <2> QED
    BY <2>2, <2>3, <2>4, <2>5
<1>3. CASE RetryableError(t) \/ FatalError(t)
  <2>1. call'[t].phase \in {"sent", "raised"} /\ call'[t].reply = NoJob
    BY <1>3, <1>attempt, NextAttemptFacts, ReachesFacts DEF RetryableError, FatalError
  <2>2. /\ \A r \in late' : r \in late \/ (/\ call[t].op \in Verdicts
                                           /\ r.op = call[t].op /\ r.job = call[t].job)
        /\ late \subseteq late'
    BY <1>3, <1>who, MayArriveLateFacts DEF RetryableError, FatalError
  <2>3. unseen' = unseen \cup Forgotten(call[t]) /\ UNCHANGED serverVars
    BY <1>3 DEF RetryableError, FatalError
  <2>4. Fresh' /\ RunInProgress'
    BY <1>frame, <1>types, <1>who, <2>1, <2>3
    DEF CallMoves, Fresh, RunInProgress, Untouched
  <2>5. VerdictsDecided' /\ SettledJobs' /\ OneVerdict' /\ CompletedHasArtifact'
        /\ SilentEndHasCause'
    BY <1>frame, <1>types, <1>who, <2>1, <2>2, <2>3
    DEF CallMoves, VerdictsDecided, SettledJobs, OneVerdict, CompletedHasArtifact,
        SilentEndHasCause, Settled, Answered
  <2>6. StopsHaveCause' /\ CancelFlagHasCause'
    BY <1>frame, <1>types, <1>who, <2>1, <2>3
    DEF CallMoves, StopsHaveCause, CancelFlagHasCause, Answered
  <2>7. HeartbeatOutlivesOnlyCrash'
    BY <1>frame DEF HeartbeatOutlivesOnlyCrash
  <2>8. OrphansHaveCause'
    <3>1. ASSUME NEW j \in Jobs, InHand(j) PROVE InHand(j)' \/ j \in unseen'
      BY <1>frame, <1>types, <1>who, <2>1, <2>3, <3>1
      DEF CallMoves, InHand, Forgotten, InFlight
    <3>2. ASSUME NEW j \in Jobs, VerdictUnderWay(j) PROVE VerdictUnderWay(j)'
      BY <2>2, <3>2 DEF VerdictUnderWay
    <3> QED
      BY <1>frame, <2>3, <3>1, <3>2 DEF OrphansHaveCause
  <2> QED
    BY <2>4, <2>5, <2>6, <2>7, <2>8
<1> QED
  BY <1>1, <1>2, <1>3 DEF NetworkStep, CallStep

\* Late requests, users and signals keep the invariant (worker.py:36-45).
LEMMA InvariantOther ==
  ASSUME IInv, Control', Overdue \/ (\E j \in Jobs : Cancel(j)) \/ Signal \/ UNCHANGED vars
  PROVE  IInv'
<1> USE DEF IInv, Control, TypeOK, JobHeld, MainCall, HeartbeatCall, vars, remoteVars,
        serverVars, clientVars, backlogVars, mainVars, trainerVars, hbVars, runVars, Verdicts
<1>1. CASE Overdue /\ LateVerdict
  <2>1. PICK r \in late : /\ ServeVerdict(r.op, r.job, "ok") /\ late' = late \ {r}
                          /\ UNCHANGED <<call, lateClaims, unseen>>
    BY <1>1 DEF LateVerdict, Serve
  <2>2. <<r.job, r.op>> \in posted /\ r.job \in Jobs /\ r.op \in Verdicts
    BY <2>1 DEF VerdictsDecided
  <2>3. UNCHANGED <<mainVars, hbVars, runVars>>
    BY <1>1 DEF Overdue
  <2>4. Fresh' /\ RunInProgress'
    BY <2>1, <2>2, <2>3 DEF ServeVerdict, Fresh, RunInProgress, Untouched
  <2>5. VerdictsDecided' /\ SettledJobs' /\ OneVerdict' /\ CompletedHasArtifact'
        /\ SilentEndHasCause'
    BY <2>1, <2>2, <2>3
    DEF ServeVerdict, VerdictsDecided, SettledJobs, OneVerdict, CompletedHasArtifact,
        SilentEndHasCause, Settled, Answered
  <2>6. StopsHaveCause' /\ CancelFlagHasCause'
    BY <2>1, <2>2, <2>3 DEF ServeVerdict, StopsHaveCause, CancelFlagHasCause, Answered
  <2>7. OrphansHaveCause' /\ HeartbeatOutlivesOnlyCrash'
    BY <2>1, <2>2, <2>3
    DEF ServeVerdict, OrphansHaveCause, HeartbeatOutlivesOnlyCrash, InHand, VerdictUnderWay
  <2> QED
    BY <2>4, <2>5, <2>6, <2>7
<1>2. CASE Overdue /\ LateClaim
  <2>1. PICK reply \in Jobs \cup {NoJob} : /\ ServeClaim(reply)
                                           /\ unseen' = unseen \cup ({reply} \ {NoJob})
                                           /\ UNCHANGED <<call, late>>
    BY <1>2 DEF LateClaim, Serve
  <2>2. UNCHANGED <<mainVars, hbVars, runVars>>
    BY <1>2 DEF Overdue
  <2>3. Fresh' /\ RunInProgress'
    BY <2>1, <2>2 DEF ServeClaim, Fresh, RunInProgress, Untouched
  <2>4. VerdictsDecided' /\ SettledJobs' /\ OneVerdict' /\ CompletedHasArtifact'
        /\ SilentEndHasCause'
    BY <2>1, <2>2
    DEF ServeClaim, VerdictsDecided, SettledJobs, OneVerdict, CompletedHasArtifact,
        SilentEndHasCause, Settled, Answered
  <2>5. StopsHaveCause' /\ CancelFlagHasCause'
    BY <2>1, <2>2 DEF ServeClaim, StopsHaveCause, CancelFlagHasCause, Answered
  <2>6. OrphansHaveCause' /\ HeartbeatOutlivesOnlyCrash'
    BY <2>1, <2>2, NoJobAssumption
    DEF ServeClaim, OrphansHaveCause, HeartbeatOutlivesOnlyCrash, InHand, VerdictUnderWay
  <2> QED
    BY <2>3, <2>4, <2>5, <2>6
<1>3. ASSUME NEW j \in Jobs, Cancel(j) PROVE IInv'
  <2>1. Fresh' /\ RunInProgress'
    BY <1>3 DEF Cancel, UserCancel, Fresh, RunInProgress, Untouched
  <2>2. VerdictsDecided' /\ SettledJobs' /\ OneVerdict' /\ CompletedHasArtifact'
        /\ SilentEndHasCause'
    BY <1>3
    DEF Cancel, UserCancel, VerdictsDecided, SettledJobs, OneVerdict, CompletedHasArtifact,
        SilentEndHasCause, Settled, Answered
  <2>3. StopsHaveCause' /\ CancelFlagHasCause'
    BY <1>3 DEF Cancel, UserCancel, StopsHaveCause, CancelFlagHasCause, Answered
  <2>4. OrphansHaveCause' /\ HeartbeatOutlivesOnlyCrash'
    BY <1>3 DEF Cancel, UserCancel, OrphansHaveCause, HeartbeatOutlivesOnlyCrash, InHand,
                VerdictUnderWay
  <2> QED
    BY <2>1, <2>2, <2>3, <2>4
<1>4. CASE Signal \/ UNCHANGED vars
  <2>1. UNCHANGED <<serverVars, clientVars, pc, job, trainerVars, hbVars, runVars>>
        /\ (shutdown => shutdown')
    BY <1>4 DEF Signal
  <2>2. Fresh' /\ RunInProgress'
    BY <2>1 DEF Fresh, RunInProgress, Untouched
  <2>3. VerdictsDecided' /\ SettledJobs' /\ OneVerdict' /\ CompletedHasArtifact'
        /\ SilentEndHasCause'
    BY <2>1 DEF VerdictsDecided, SettledJobs, OneVerdict, CompletedHasArtifact,
                SilentEndHasCause, Settled, Answered
  <2>4. StopsHaveCause' /\ CancelFlagHasCause'
    BY <2>1 DEF StopsHaveCause, CancelFlagHasCause, Answered
  <2>5. OrphansHaveCause' /\ HeartbeatOutlivesOnlyCrash'
    BY <2>1 DEF OrphansHaveCause, HeartbeatOutlivesOnlyCrash, InHand, VerdictUnderWay
  <2> QED
    BY <2>2, <2>3, <2>4, <2>5
<1> QED
  BY <1>1, <1>2, <1>3, <1>4 DEF Overdue, LateStep

\* The invariant holds initially.
LEMMA InvariantInit == Init => IInv
<1> SUFFICES ASSUME Init PROVE IInv
  OBVIOUS
<1>1. Control
  BY ControlInit
<1>2. \A j \in Jobs : status[j] = "pending" /\ call[j] = Idle
  BY ThreadsAssumption DEF Init, ServerInit, ClientInit
<1> QED
  BY <1>1, <1>2, NoJobAssumption, IdleIsCall
  DEF Init, ServerInit, ClientInit, IInv, Fresh, RunInProgress, VerdictsDecided, SettledJobs,
      StopsHaveCause, OneVerdict, CompletedHasArtifact, CancelFlagHasCause,
      SilentEndHasCause, OrphansHaveCause, HeartbeatOutlivesOnlyCrash,
      Untouched, Settled, Answered, InHand, VerdictUnderWay

\* The invariant is inductive.
LEMMA InvariantStep == IInv /\ [Next]_vars => IInv'
<1> SUFFICES ASSUME IInv, [Next]_vars PROVE IInv'
  OBVIOUS
<1>1. Control'
  BY ControlStep DEF IInv
<1> QED
  BY <1>1, InvariantMain, InvariantHeartbeat, InvariantNetwork, InvariantOther DEF Next

\* The inductive invariant of the worker holds in every reachable state
\* (worker.py:145-317).
THEOREM InvariantHolds == Spec => []IInv
<1> QED
  BY InvariantInit, InvariantStep, PTL DEF Spec

-----------------------------------------------------------------------------
(* The properties the runs check, for every value of the constants. *)

\* worker.py:155-248: no job is ever reported both completed and failed.
THEOREM OneVerdictHolds == Spec => []OneVerdict
<1>1. IInv => OneVerdict
  BY DEF IInv
<1> QED
  BY <1>1, InvariantHolds, PTL

\* worker.py:230-241: completed on the server means that the artifact is stored.
THEOREM CompletedHasArtifactHolds == Spec => []CompletedHasArtifact
<1>1. IInv => CompletedHasArtifact
  BY DEF IInv
<1> QED
  BY <1>1, InvariantHolds, PTL

\* worker.py:66-76 and 165: a heartbeat of one job never cancels another.
THEOREM CancelFlagHasCauseHolds == Spec => []CancelFlagHasCause
<1>1. IInv => CancelFlagHasCause
  BY DEF IInv
<1> QED
  BY <1>1, InvariantHolds, PTL

\* worker.py:212-217: a run without a verdict was cancelled by its user, or the
\* worker was shut down.
THEOREM SilentEndHasCauseHolds == Spec => []SilentEndHasCause
<1>1. IInv => SilentEndHasCause
  BY DEF IInv
<1> QED
  BY <1>1, InvariantHolds, PTL

\* worker.py:167-174: a heartbeat that outlives its run without being stopped is one
\* whose scratch directory could not be made.
THEOREM HeartbeatOutlivesOnlyCrashHolds == Spec => []HeartbeatOutlivesOnlyCrash
<1>1. IInv => HeartbeatOutlivesOnlyCrash
  BY DEF IInv
<1> QED
  BY <1>1, InvariantHolds, PTL

\* worker.py:145-317: a job left running on the server was left in one of the ways
\* OrphansHaveCause lists, and no other.
THEOREM OrphansHaveCauseHolds == Spec => []OrphansHaveCause
<1>1. IInv => OrphansHaveCause
  BY DEF IInv
<1> QED
  BY <1>1, InvariantHolds, PTL

-----------------------------------------------------------------------------
(* The worker implements the ledger. *)

\* The jobs whose run is over, as the ledger counts them.
Left == {j \in Jobs : fate[j] # "none"}

\* The initial states are those of the ledger.
LEMMA LedgerInit == Init => Ledger!Init
  BY DEF Init, ServerInit, Ledger!Init

\* Leaving _run_one_job is letting go of the job.
LEMMA LeaveRefines ==
  ASSUME IInv, job \in Jobs, NEW how \in Fates \ {"none"}, LeaveJob(how),
         UNCHANGED <<status, uploaded, posted>>
  PROVE  Ledger!Leave
<1>1. Left' = Left \cup {job}
  BY DEF LeaveJob, Left, IInv, Control, TypeOK
<1> QED
  BY <1>1, NoJobAssumption DEF LeaveJob, Ledger!Leave, Left

\* Setting out to post a verdict is deciding it.
LEMMA VerdictRefines ==
  ASSUME IInv, job \in Jobs, pc # "posting", UNCHANGED <<status, job, fate>>,
         \/ PostVerdict("failed") /\ UNCHANGED uploaded
         \/ PostVerdict("complete") /\ uploaded' = uploaded \cup {job}
  PROVE  Ledger!Fail(job) \/ Ledger!Complete(job)
<1>1. ~ \E v \in {"complete", "failed"} : <<job, v>> \in posted
  BY NoJobAssumption DEF IInv, RunInProgress, Verdicts
<1>2. Left' = Left
  BY DEF Left
<1> QED
  BY <1>1, <1>2 DEF PostVerdict, Ledger!Fail, Ledger!Complete, Left

\* The main thread: each action is a step of the ledger or a stutter.
LEMMA LedgerMain ==
  ASSUME IInv, MainStep
  PROVE  Ledger!Next \/ UNCHANGED Ledger!vars
<1> USE NoJobAssumption DEF remoteVars, serverVars, trainerVars, hbVars, runVars
<1>held. pc \notin {"poll", "claiming", "waiting", "stopped"} => job \in Jobs
  BY DEF IInv, Control, TypeOK, JobHeld
<1>1. CASE PollClaim \/ WaitEnds \/ StopLoop \/ SetupSucceeds \/ ScratchReady \/ Report
           \/ ReportReturns \/ StartReplay \/ TrainerReturns
  BY <1>1 DEF PollClaim, WaitEnds, StopLoop, SetupSucceeds, ScratchReady, Report,
              ReportReturns, StartReplay, TrainerReturns, Ledger!vars
<1>2. CASE ClaimReturns
  <2>1. UNCHANGED <<status, uploaded, posted, fate>> /\ pc = "claiming"
    BY <1>2 DEF ClaimReturns
  <2>2. CASE call[Main].reply \in Jobs
    <3>1. job = NoJob /\ job' = call[Main].reply
      BY <1>2, <2>1, <2>2 DEF ClaimReturns, IInv, Control, JobHeld
    <3>2. Untouched(job') /\ status[job'] # "pending"
      BY <2>1, <2>2, <3>1 DEF IInv, Fresh
    <3>3. Ledger!Hold(job')
      BY <2>1, <3>1, <3>2 DEF Untouched, Ledger!Hold
    <3> QED
      BY <2>2, <3>1, <3>3 DEF Ledger!Next
  <2>3. CASE call[Main].reply \notin Jobs
    BY <1>2, <2>1, <2>3 DEF ClaimReturns, Ledger!vars
  <2> QED
    BY <2>2, <2>3
<1>3. CASE SetupFails \/ TrainerRaises \/ UploadSucceeds \/ UploadFails
  <2>1. job \in Jobs
    BY <1>3, <1>held DEF SetupFails, TrainerRaises, UploadSucceeds, UploadFails
  <2>2. /\ pc # "posting" /\ UNCHANGED <<status, job, fate>>
        /\ \/ PostVerdict("failed") /\ UNCHANGED uploaded
           \/ PostVerdict("complete") /\ uploaded' = uploaded \cup {job}
    BY <1>3 DEF SetupFails, TrainerRaises, UploadSucceeds, UploadFails
  <2> QED
    BY <2>1, <2>2, VerdictRefines DEF Ledger!Next
<1>4. CASE ScratchFails \/ TrainerCancels \/ PostReturns
  <2>1. job \in Jobs
    BY <1>4, <1>held DEF ScratchFails, TrainerCancels, PostReturns
  <2>2. UNCHANGED <<status, uploaded, posted>>
    BY <1>4 DEF ScratchFails, TrainerCancels, PostReturns
  <2>3. \E how \in Fates \ {"none"} : LeaveJob(how)
    BY <1>4 DEF ScratchFails, TrainerCancels, PostReturns, Fates
  <2> QED
    BY <2>1, <2>2, <2>3, LeaveRefines DEF Ledger!Next
<1> QED
  BY <1>1, <1>2, <1>3, <1>4 DEF MainStep, TrainerEnds

\* Only the server's handling of a claim or of a verdict shows in the ledger.
LEMMA ServeRefines ==
  ASSUME IInv, NEW op \in Ops, NEW j \in Jobs \cup {NoJob}, NEW reply, Serve(op, j, reply),
         op \in Verdicts => j \in Jobs /\ <<j, op>> \in posted,
         UNCHANGED <<job, fate, uploaded, posted>>
  PROVE  Ledger!Next \/ UNCHANGED Ledger!vars
<1>1. CASE op = "claim" /\ ServeClaim(reply)
  BY <1>1 DEF ServeClaim, Ledger!Next, Ledger!Assign, Ledger!vars
<1>2. CASE op \in {"heartbeat", "progress"} /\ ServePoll(j, reply)
  BY <1>2 DEF ServePoll, serverVars, Ledger!vars
<1>3. CASE op \in Verdicts /\ ServeVerdict(op, j, reply)
  <2>1. Ledger!TakeEffect(j)
    BY <1>3 DEF ServeVerdict, Verdicts, Ledger!TakeEffect
  <2> QED
    BY <1>3, <2>1 DEF Ledger!Next
<1> QED
  BY <1>1, <1>2, <1>3 DEF Serve

\* The network: only a request that the server handles shows in the ledger.
LEMMA LedgerNetwork ==
  ASSUME IInv, NEW t \in Threads, NetworkStep(t)
  PROVE  Ledger!Next \/ UNCHANGED Ledger!vars
<1>1. UNCHANGED <<job, fate, uploaded, posted>>
  BY DEF NetworkStep, mainVars, runVars
<1>2. CASE ServerHandles(t)
  <2>1. PICK reply \in Replies : Serve(call[t].op, call[t].job, reply)
    BY <1>2 DEF ServerHandles
  <2>2. call[t].op \in Ops /\ call[t].job \in Jobs \cup {NoJob}
    BY CallFields DEF IInv, Control, TypeOK
  <2>3. call[t].op \in Verdicts => call[t].job \in Jobs /\ <<call[t].job, call[t].op>> \in posted
    <3>1. InFlight(t) /\ Control
      BY <1>2 DEF ServerHandles, InFlight, IInv
    <3>2. call[t].op \in Verdicts => t = Main /\ pc = "posting" /\ call[t].job = job
      BY <3>1, Callers DEF Verdicts
    <3> QED
      BY <3>1, <3>2 DEF IInv, VerdictsDecided, Control, TypeOK, JobHeld
  <2> QED
    BY <1>1, <2>1, <2>2, <2>3, ServeRefines
<1>3. CASE ReplyArrives(t) \/ RetryableError(t) \/ FatalError(t)
  BY <1>1, <1>3 DEF ReplyArrives, RetryableError, FatalError, serverVars, Ledger!vars
<1> QED
  BY <1>2, <1>3 DEF NetworkStep, CallStep

\* Late requests and users: a late verdict takes effect, a late claim assigns.
LEMMA LedgerOther ==
  ASSUME IInv, Overdue \/ (\E j \in Jobs : Cancel(j)) \/ Signal \/ UNCHANGED vars
  PROVE  Ledger!Next \/ UNCHANGED Ledger!vars
<1> USE DEF vars, remoteVars, serverVars, clientVars, mainVars, trainerVars, hbVars, runVars
<1>1. CASE Overdue /\ LateVerdict
  <2>1. PICK r \in late : Serve(r.op, r.job, "ok")
    BY <1>1 DEF LateVerdict
  <2>2. r.op \in Verdicts /\ r.job \in Jobs /\ <<r.job, r.op>> \in posted
    BY DEF IInv, Control, TypeOK, VerdictsDecided
  <2> QED
    BY <1>1, <2>1, <2>2, ServeRefines DEF Overdue, Ops
<1>2. CASE Overdue /\ LateClaim
  <2>1. PICK reply : Serve("claim", NoJob, reply)
    BY <1>2 DEF LateClaim
  <2> QED
    BY <1>2, <2>1, ServeRefines DEF Overdue, Ops, Verdicts
<1>3. ASSUME NEW j \in Jobs, Cancel(j) PROVE Ledger!Next
  BY <1>3 DEF Cancel, UserCancel, Ledger!Next, Ledger!Cancel
<1>4. CASE Signal \/ UNCHANGED vars
  BY <1>4 DEF Signal, Ledger!vars
<1> QED
  BY <1>1, <1>2, <1>3, <1>4 DEF Overdue, LateStep

\* Every step of the worker is a step of the ledger or a stutter.
LEMMA LedgerStep == IInv /\ [Next]_vars => [Ledger!Next]_(Ledger!vars)
<1> SUFFICES ASSUME IInv, [Next]_vars PROVE Ledger!Next \/ UNCHANGED Ledger!vars
  OBVIOUS
<1>1. ASSUME NEW j \in Jobs, HeartbeatStep(j) PROVE UNCHANGED Ledger!vars
  BY <1>1 DEF HeartbeatStep, HeartbeatBegins, HeartbeatExits, HeartbeatReturns, HeartbeatWakes,
              remoteVars, serverVars, mainVars, runVars, Ledger!vars
<1> QED
  BY <1>1, LedgerMain, LedgerNetwork, LedgerOther DEF Next

\* The worker implements the safety part of JobLedger: one job at a time, each at
\* most once, at most one verdict per job, and no status the worker did not decide
\* (worker.py:145-317, with every loss, delay and repetition of callbacks.py).
THEOREM WorkerImplementsLedger == Spec => KeepsLedgerSafely
<1>1. Init => Ledger!Init
  BY LedgerInit
<1>2. IInv /\ [Next]_vars => [Ledger!Next]_(Ledger!vars)
  BY LedgerStep
<1> QED
  BY <1>1, <1>2, InvariantHolds, PTL DEF Spec, KeepsLedgerSafely, Ledger!SafeSpec

-----------------------------------------------------------------------------
(* What the ledger promises the server about the status of a job. *)

\* A verdict is decided once, for a job that is held, and only a decided one takes effect.
LEMMA LedgerKeeps ==
  ASSUME Ledger!VerdictsKnown, Ledger!Next
  PROVE  Ledger!VerdictsKnown'
<1> USE DEF Ledger!VerdictsKnown
<1>1. ASSUME NEW j \in Jobs, Ledger!Assign(j) \/ Ledger!Cancel(j)
      PROVE  Ledger!VerdictsKnown'
  BY <1>1 DEF Ledger!Assign, Ledger!Cancel
<1>2. ASSUME NEW j \in Jobs, Ledger!Hold(j)
      PROVE  Ledger!VerdictsKnown'
  BY <1>2 DEF Ledger!Hold
<1>3. ASSUME NEW j \in Jobs, Ledger!Fail(j) \/ Ledger!Complete(j)
      PROVE  Ledger!VerdictsKnown'
  BY <1>3 DEF Ledger!Fail, Ledger!Complete
<1>4. ASSUME NEW j \in Jobs, Ledger!TakeEffect(j)
      PROVE  Ledger!VerdictsKnown'
  BY <1>4 DEF Ledger!TakeEffect
<1>5. CASE Ledger!Leave
  BY <1>5, NoJobAssumption DEF Ledger!Leave
<1> QED
  BY <1>1, <1>2, <1>3, <1>4, <1>5 DEF Ledger!Next

\* A step of the ledger moves the status of one job, forward.
LEMMA LedgerMoves ==
  ASSUME Ledger!VerdictsKnown, Ledger!Next, NEW j \in Jobs, status'[j] # status[j]
  PROVE  <<status[j], status'[j]>> \in Ledger!Moves
<1> USE DEF Ledger!VerdictsKnown, Ledger!Moves
<1>1. ASSUME NEW k \in Jobs, Ledger!Assign(k) \/ Ledger!Cancel(k)
      PROVE  <<status[j], status'[j]>> \in Ledger!Moves
  BY <1>1 DEF Ledger!Assign, Ledger!Cancel
<1>2. ASSUME NEW k \in Jobs, Ledger!TakeEffect(k)
      PROVE  <<status[j], status'[j]>> \in Ledger!Moves
  BY <1>2 DEF Ledger!TakeEffect
<1> QED
  BY <1>1, <1>2 DEF Ledger!Next, Ledger!Hold, Ledger!Fail, Ledger!Complete, Ledger!Leave

\* No repeated, late or lost request ever takes a job back, or replaces one verdict by the
\* other (callbacks.py:184-199, worker.py:230-248).
THEOREM StatusMovesOnHolds == Spec => StatusMovesOn
<1>1. Ledger!Init => Ledger!VerdictsKnown
  BY NoJobAssumption DEF Ledger!Init, Ledger!VerdictsKnown
<1>2. Ledger!VerdictsKnown /\ [Ledger!Next]_(Ledger!vars) => Ledger!VerdictsKnown'
  <2>1. Ledger!VerdictsKnown /\ UNCHANGED Ledger!vars => Ledger!VerdictsKnown'
    BY DEF Ledger!VerdictsKnown, Ledger!vars
  <2> QED
    BY <2>1, LedgerKeeps
<1>3. Ledger!VerdictsKnown /\ [Ledger!Next]_(Ledger!vars) =>
         [\A j \in Jobs : status'[j] # status[j] =>
              <<status[j], status'[j]>> \in Ledger!Moves]_(Ledger!vars)
  BY LedgerMoves
<1> QED
  BY <1>1, <1>2, <1>3, WorkerImplementsLedger, PTL
     DEF KeepsLedgerSafely, Ledger!SafeSpec, StatusMovesOn, Ledger!StatusMovesOn

-----------------------------------------------------------------------------
(* A cancel that was heard is heeded. *)

\* on_progress begins: what it can hear is noted (worker.py:190-201).
LEMMA HeardReport ==
  ASSUME IInv, CancelKnown, Report, Remember
  PROVE  CancelKnown'
<1> USE DEF CancelKnown, IInv, Control, TypeOK, remoteVars, serverVars, trainerVars, hbVars, runVars
<1>1. OnProgressBegins /\ ~OnProgressReturns
  BY DEF Report, OnProgressBegins, OnProgressReturns
<1>2. UNCHANGED <<userCancelled, cancelFlag, job, told, posted>> /\ heard' = {job} \cap heard
  BY <1>1 DEF Report, Remember
<1>3. shown' = userCancelled \cap {job} /\ raised' = {j \in {job} : cancelFlag[j]}
  BY <1>1 DEF Remember
<1>4. job \in Jobs /\ Main \in Threads /\ "progress" \in Ops
  BY ThreadsAssumption DEF Report, JobHeld, Ops
<1>5. call'[Main].phase = "sent"
  BY <1>4, IssueFacts DEF Report
<1> QED
  BY <1>2, <1>3, <1>4, <1>5 DEF AnswersShow, HeardIsTold, HeardCancelIsHeeded, Answered

\* on_progress returns: an answer or a flag that shows the cancel is passed on to the
\* trainer (worker.py:202-208).
LEMMA HeardReturns ==
  ASSUME IInv, CancelKnown, ReportReturns, Remember
  PROVE  CancelKnown'
<1> USE DEF CancelKnown, IInv, Control, TypeOK, remoteVars, serverVars, trainerVars, hbVars, runVars
<1>1. OnProgressReturns /\ ~OnProgressBegins
  BY DEF ReportReturns, OnProgressBegins, OnProgressReturns
<1>2. UNCHANGED <<userCancelled, cancelFlag, job, posted>> /\ shown' = {} /\ raised' = {}
  BY <1>1 DEF ReportReturns, Remember
<1>3. heard' = {job} \cap (heard \cup
         {j \in {job} : j \in raised \/ (j \in shown /\ call[Main].phase = "done")})
  BY <1>1, <1>2 DEF Remember
<1>4. job \in Jobs /\ pc' = "train"
      /\ \A v \in Verdicts : <<job, v>> \notin posted
  BY NoJobAssumption DEF ReportReturns, JobHeld, RunInProgress
<1>5. job \in heard' \ heard => ~KeepGoing
  BY <1>3 DEF ReportReturns, KeepGoing, AnswersShow, Answered
<1>6. told' = (told \/ ~KeepGoing)
  BY DEF ReportReturns
<1> QED
  BY <1>2, <1>3, <1>4, <1>5, <1>6 DEF AnswersShow, HeardIsTold, HeardCancelIsHeeded

\* The rest of the main thread: a told in-process trainer only ends by CancelledError
\* (worker.py:212-217).
LEMMA HeardMain ==
  ASSUME IInv, CancelKnown, MainStep, ~Report, ~ReportReturns, Remember
  PROVE  CancelKnown'
<1> USE DEF CancelKnown, IInv, Control, TypeOK, remoteVars, serverVars, trainerVars, hbVars, runVars
<1>1. /\ ~OnProgressBegins /\ ~OnProgressReturns /\ pc' # "reporting"
      /\ UNCHANGED <<userCancelled, cancelFlag>>
  BY DEF MainStep, TrainerEnds, PollClaim, ClaimReturns, WaitEnds, StopLoop, SetupFails,
     SetupSucceeds, ScratchReady, ScratchFails, StartReplay, TrainerCancels, TrainerRaises,
     TrainerReturns, UploadSucceeds, UploadFails, PostReturns, PostVerdict, LeaveJob,
     OnProgressBegins, OnProgressReturns
<1>2. UNCHANGED <<shown, raised>> /\ heard' = {job'} \cap heard
  BY <1>1 DEF Remember
<1>3. CASE ClaimReturns \/ ScratchFails \/ TrainerCancels \/ PostReturns
  <2>1. UNCHANGED posted /\ (job = NoJob \/ job' = NoJob)
    BY <1>3 DEF ClaimReturns, ScratchFails, TrainerCancels, PostReturns, LeaveJob, JobHeld
  <2>2. heard' = {}
    BY <1>2, <2>1, NoJobAssumption DEF HeardIsTold
  <2> QED
    BY <1>1, <1>2, <2>2 DEF AnswersShow, HeardIsTold, HeardCancelIsHeeded
<1>4. CASE SetupFails \/ TrainerRaises \/ UploadSucceeds \/ UploadFails
  <2>1. /\ UNCHANGED <<job, told>> /\ job \in Jobs
        /\ \E v \in Verdicts : posted' = posted \cup {<<job, v>>}
    BY <1>4 DEF SetupFails, TrainerRaises, UploadSucceeds, UploadFails, PostVerdict, JobHeld, Verdicts
  <2>2. told => job \in SubprocessJobs
    BY <1>4, <2>1, NoJobAssumption, TrainersAssumption
    DEF SetupFails, TrainerRaises, UploadSucceeds, UploadFails, RunInProgress
  <2>3. job \in heard => job \in SubprocessJobs
    BY <2>2 DEF HeardIsTold
  <2> QED
    BY <1>1, <1>2, <2>1, <2>3 DEF AnswersShow, HeardIsTold, HeardCancelIsHeeded
<1>5. CASE PollClaim \/ WaitEnds \/ StopLoop \/ SetupSucceeds \/ ScratchReady \/ StartReplay
           \/ TrainerReturns
  <2>1. UNCHANGED <<job, told, posted>>
    BY <1>5 DEF PollClaim, WaitEnds, StopLoop, SetupSucceeds, ScratchReady, StartReplay, TrainerReturns
  <2> QED
    BY <1>1, <1>2, <2>1 DEF AnswersShow, HeardIsTold, HeardCancelIsHeeded
<1> QED
  BY <1>3, <1>4, <1>5 DEF MainStep, TrainerEnds

\* The network: as long as nothing is posted for the job, the server answers a progress
\* callback that follows the cancel with it (callbacks.py:182-205).
LEMMA HeardNetwork ==
  ASSUME IInv, Ledger!VerdictsKnown, CancelKnown, NEW t \in Threads, NetworkStep(t), Remember
  PROVE  CancelKnown'
<1> USE DEF CancelKnown, IInv, Control, TypeOK
<1>1. /\ UNCHANGED <<pc, job, told, cancelFlag, posted>>
      /\ CallMoves(t) /\ InFlight(t) /\ userCancelled' = userCancelled
  BY CallStepTypes DEF NetworkStep, mainVars, trainerVars, hbVars, runVars
<1>2. UNCHANGED <<shown, raised>> /\ heard' = {job} \cap heard
  BY <1>1 DEF Remember, OnProgressBegins, OnProgressReturns
<1>3. AnswersShow'
  <2> SUFFICES ASSUME pc = "reporting", job \in shown, Answered(Main)' PROVE call'[Main].reply = "stop"
    BY <1>1, <1>2 DEF AnswersShow
  <2>1. CASE t # Main
    BY <1>1, <2>1, ThreadsAssumption DEF CallMoves, AnswersShow, Answered
  <2>2. CASE t = Main
    <3>1. call[Main].op = "progress" /\ call[Main].job = job /\ job \in Jobs
      BY <1>1 DEF MainCall, JobHeld
    <3>2. status[job] = "cancelled"
      BY <1>1, <3>1, NoJobAssumption
      DEF SettledJobs, Settled, RunInProgress, Ledger!VerdictsKnown, Verdicts
    <3>3. call[Main].attempt \in 1 .. MaxRetries /\ call[Main].reply \in Replies /\ NoJob \in Replies
      BY <2>2, CallFields DEF Replies
    <3>4. CASE ServerHandles(Main)
      <4>1. PICK reply \in Replies : /\ Serve(call[Main].op, call[Main].job, reply)
                                     /\ Reaches(Main, call[Main].attempt, "served", reply)
        BY <3>4 DEF ServerHandles
      <4>2. reply = "stop"
        BY <3>1, <3>2, <4>1 DEF Serve, ServePoll, Verdicts
      <4> QED
        BY <2>2, <3>3, <4>1, <4>2, ReachesFacts
    <3>5. CASE ReplyArrives(Main)
      BY <2>2, <3>3, <3>5, ReachesFacts DEF ReplyArrives, AnswersShow, Answered
    <3>6. CASE RetryableError(Main) \/ FatalError(Main)
      <4>1. call'[Main].phase \in {"sent", "raised"}
        BY <2>2, <3>3, <3>6, NextAttemptFacts, ReachesFacts DEF RetryableError, FatalError
      <4> QED
        BY <4>1 DEF Answered
    <3> QED
      BY <2>2, <3>4, <3>5, <3>6 DEF NetworkStep, CallStep
  <2> QED
    BY <2>1, <2>2
<1> QED
  BY <1>1, <1>2, <1>3 DEF HeardIsTold, HeardCancelIsHeeded

\* Nobody else takes back a cancel or a flag (worker.py:66-79).
LEMMA HeardOther ==
  ASSUME IInv, CancelKnown, Remember,
         \/ \E j \in Jobs : HeartbeatStep(j) \/ Cancel(j)
         \/ Overdue \/ Signal
  PROVE  CancelKnown'
<1> USE DEF CancelKnown, IInv, Control, TypeOK
<1>1. CASE \E j \in Jobs : HeartbeatStep(j)
  <2>1. PICK j \in Jobs : HeartbeatStep(j)
    BY <1>1
  <2>2. /\ UNCHANGED <<pc, job, told, posted, userCancelled>>
        /\ \A k \in Jobs : cancelFlag[k] => cancelFlag'[k]
    BY <2>1 DEF HeartbeatStep, HeartbeatBegins, HeartbeatExits, HeartbeatReturns, HeartbeatWakes,
       remoteVars, serverVars, mainVars, trainerVars, runVars
  <2>3. j \in Threads \ {Main} /\ Main \in Threads /\ "heartbeat" \in Ops
    BY ThreadsAssumption DEF Ops
  <2>4. call'[Main] = call[Main]
    BY <2>1, <2>3, IssueFacts, ConsumeFacts
    DEF HeartbeatStep, HeartbeatBegins, HeartbeatExits, HeartbeatReturns, HeartbeatWakes
  <2>5. UNCHANGED <<shown, raised>> /\ heard' = {job} \cap heard
    BY <2>2 DEF Remember, OnProgressBegins, OnProgressReturns
  <2> QED
    BY <2>2, <2>4, <2>5 DEF AnswersShow, HeardIsTold, HeardCancelIsHeeded, Answered
<1>2. CASE (\E j \in Jobs : Cancel(j)) \/ Overdue \/ Signal
  <2>1. /\ UNCHANGED <<pc, job, told, posted, call, cancelFlag>>
        /\ userCancelled \subseteq userCancelled'
    BY <1>2 DEF Cancel, UserCancel, Overdue, LateStep, LateVerdict, LateClaim, Serve, ServeClaim,
       ServePoll, ServeVerdict, serverVars, Signal, remoteVars, clientVars, mainVars, trainerVars,
       hbVars, runVars
  <2>2. UNCHANGED <<shown, raised>> /\ heard' = {job} \cap heard
    BY <2>1 DEF Remember, OnProgressBegins, OnProgressReturns
  <2> QED
    BY <2>1, <2>2 DEF AnswersShow, HeardIsTold, HeardCancelIsHeeded, Answered
<1> QED
  BY <1>1, <1>2

\* An in-process trainer that heard of the cancel never gets as far as a verdict, whatever
\* is lost, repeated or delayed between worker and server (worker.py:190-217).
THEOREM HeardCancelIsHeededHolds == CancelSpec => []HeardCancelIsHeeded
<1> DEFINE Known == IInv /\ Ledger!VerdictsKnown /\ CancelKnown
<1>1. CancelInit => Known
  <2>1. Init => Ledger!VerdictsKnown
    BY NoJobAssumption, LedgerInit DEF Ledger!Init, Ledger!VerdictsKnown
  <2>2. CancelInit => CancelKnown
    BY DEF CancelInit, CancelKnown, Init, AnswersShow, HeardIsTold, HeardCancelIsHeeded
  <2> QED
    BY <2>1, <2>2, InvariantInit DEF CancelInit
<1>2. Known /\ [Next /\ Remember]_<<vars, cancelVars>> => Known'
  <2> SUFFICES ASSUME Known, [Next /\ Remember]_<<vars, cancelVars>> PROVE Known'
    OBVIOUS
  <2>1. IInv' /\ [Ledger!Next]_(Ledger!vars)
    BY InvariantStep, LedgerStep
  <2>2. Ledger!VerdictsKnown'
    BY <2>1, LedgerKeeps DEF Ledger!VerdictsKnown, Ledger!vars
  <2>3. Next /\ Remember => CancelKnown'
    BY HeardReport, HeardReturns, HeardMain, HeardNetwork, HeardOther DEF Next
  <2>4. UNCHANGED <<vars, cancelVars>> => CancelKnown'
    BY DEF CancelKnown, AnswersShow, HeardIsTold, HeardCancelIsHeeded, Answered, vars,
       cancelVars, serverVars, clientVars, mainVars, trainerVars, hbVars, runVars
  <2> QED
    BY <2>1, <2>2, <2>3, <2>4
<1>3. Known => HeardCancelIsHeeded
  BY DEF CancelKnown
<1> QED
  BY <1>1, <1>2, <1>3, PTL DEF CancelSpec
=============================================================================
