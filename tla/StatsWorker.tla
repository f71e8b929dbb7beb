---------------------------- MODULE StatsWorker ----------------------------
(***************************************************************************)
(* The stats worker (stats_worker.py): processes that share one durable    *)
(* JetStream consumer, take one message at a time, and run the whole job   *)
(* (download, compute, upload, PUT) before they acknowledge it.            *)
(*                                                                         *)
(* JetStream is external: it counts deliveries, delivers a message again   *)
(* after a NAK or when its ack wait ends, gives up after MaxDeliver        *)
(* deliveries ("up to max_deliver=3", stats_worker.py:333), and takes an   *)
(* ACK of any delivery.  The job runs inside the event loop, so nothing    *)
(* tells JetStream that it is still under way: the wait may end meanwhile. *)
(***************************************************************************)
EXTENDS DatasetStats, Functions

CONSTANTS
    Jobs,          \* the messages, one dataset each
    NoJob,
    Workers,       \* stats worker processes
    MaxDeliver,    \* max_deliver of the consumer
    Datasets,      \* bound: the datasets that messages are about
    Malformed      \* a message that is not JSON, or lacks one of the two keys

ASSUME DeliverAssumption == MaxDeliver \in Nat \ {0} /\ NoJob \notin Jobs

\* A file that names a column twice is not among them: pyarrow refuses it by name.
ASSUME DatasetsAssumption ==
    \A ds \in Datasets :
        /\ ds.files \in Seq(ParquetFiles)
        /\ \A i \in DOMAIN ds.files : \A k, l \in DOMAIN ds.files[i].columns :
              ds.files[i].columns[k].name = ds.files[i].columns[l].name => k = l

VARIABLES
    payload,       \* job -> the dataset it is about, or Malformed: fixed
    msg,           \* job -> "available", "pending", "settled" or "givenUp"
    deliveries,    \* job -> times it was delivered
    stored,        \* the jobs whose meta/stats.json is in the bucket
    posted,        \* the jobs whose stats the server has
    pc,            \* worker -> where it is
    work,          \* worker -> the job it works on, or NoJob
    shutdown       \* worker -> _shutdown.is_set()

StatsOf == [ds \in Datasets |-> ComputeDatasetStats(ds)]

HasStats(ds) == DOMAIN StatsOf[ds] # {}

queueVars == <<payload, msg, deliveries>>
resultVars == <<stored, posted>>
vars == <<queueVars, resultVars, pc, work, shutdown>>

Gone(w) == pc[w] \in {"stopped", "exited"}

Init == /\ payload \in [Jobs -> Datasets \cup {Malformed}]
        /\ msg = [j \in Jobs |-> "available"]
        /\ deliveries = [j \in Jobs |-> 0]
        /\ stored = {} /\ posted = {}
        /\ pc = [w \in Workers |-> "connect"]
        /\ work = [w \in Workers |-> NoJob]
        /\ shutdown = [w \in Workers |-> FALSE]

Goto(w, loc) == pc' = [pc EXCEPT ![w] = loc]

-----------------------------------------------------------------------------
(* JetStream *)

Deliver(j) == /\ msg[j] = "available"
              /\ msg' = [msg EXCEPT ![j] = "pending"]
              /\ deliveries' = [deliveries EXCEPT ![j] = @ + 1]
              /\ UNCHANGED payload

Requeue(j) == msg' = [msg EXCEPT ![j] =
    IF deliveries[j] < MaxDeliver THEN "available" ELSE "givenUp"]

AckArrives(j) == msg' = [msg EXCEPT ![j] = IF @ = "givenUp" THEN @ ELSE "settled"]

NakArrives(j) == IF msg[j] = "pending" THEN Requeue(j) ELSE UNCHANGED msg

AckWaitEnds(j) == /\ msg[j] = "pending"
                  /\ Requeue(j)
                  /\ UNCHANGED <<payload, deliveries, resultVars, pc, work, shutdown>>

-----------------------------------------------------------------------------
(* The loop of _run *)

Connect(w) == /\ pc[w] = "connect"
              /\ Goto(w, "loop")
              /\ UNCHANGED <<queueVars, resultVars, work, shutdown>>

\* Without a server, main exits with code 1; without the stream, _run returns and the
\* process ends as if it had been stopped.
ConnectFails(w) == /\ pc[w] = "connect"
                   /\ Goto(w, "exited") \/ Goto(w, "stopped")
                   /\ UNCHANGED <<queueVars, resultVars, work, shutdown>>

\* Mutant: the loop does not look at the shutdown flag.
LoopHead_FlagUnread(w) == /\ pc[w] = "loop"
                          /\ Goto(w, "fetch")
                          /\ UNCHANGED <<queueVars, resultVars, work, shutdown>>

LoopHead(w) == /\ pc[w] = "loop"
               /\ Goto(w, IF shutdown[w] THEN "stopped" ELSE "fetch")
               /\ UNCHANGED <<queueVars, resultVars, work, shutdown>>

\* Mutant: the message is acknowledged as soon as it is received.
FetchGets_AckFirst(w) == /\ pc[w] = "fetch"
                         /\ \E j \in Jobs :
                               /\ msg[j] = "available"
                               /\ msg' = [msg EXCEPT ![j] = "settled"]
                               /\ deliveries' = [deliveries EXCEPT ![j] = @ + 1]
                               /\ work' = [work EXCEPT ![w] = j]
                         /\ Goto(w, "decode")
                         /\ UNCHANGED <<payload, resultVars, shutdown>>

FetchGets(w) == /\ pc[w] = "fetch"
                /\ \E j \in Jobs : Deliver(j) /\ work' = [work EXCEPT ![w] = j]
                /\ Goto(w, "decode")
                /\ UNCHANGED <<resultVars, shutdown>>

\* No message within five seconds, or an error; a message that was already on its
\* way counts as delivered.
FetchNothing(w) == /\ pc[w] = "fetch"
                   /\ UNCHANGED queueVars \/ \E j \in Jobs : Deliver(j)
                   /\ Goto(w, "loop")
                   /\ UNCHANGED <<resultVars, work, shutdown>>

-----------------------------------------------------------------------------
(* process_stats_job *)

Decode(w) == /\ pc[w] = "decode"
             /\ Goto(w, IF payload[work[w]] = Malformed THEN "nak" ELSE "download")
             /\ UNCHANGED <<queueVars, resultVars, work, shutdown>>

Download(w) == /\ pc[w] = "download"
               /\ Goto(w, "compute")
               /\ UNCHANGED <<queueVars, resultVars, work, shutdown>>

\* Mutant: an empty result is treated like every other one, up to the PUT.
Compute_EmptyToo(w) == /\ pc[w] = "compute"
                       /\ Goto(w, "put")
                       /\ UNCHANGED <<queueVars, resultVars, work, shutdown>>

\* Nothing to say about the dataset: return before the upload, without telling the server.
Compute(w) == /\ pc[w] = "compute"
              /\ Goto(w, IF HasStats(payload[work[w]]) THEN "upload" ELSE "ack")
              /\ UNCHANGED <<queueVars, resultVars, work, shutdown>>

Upload(w) == /\ pc[w] = "upload"
             /\ stored' = stored \cup {work[w]}
             /\ Goto(w, "put")
             /\ UNCHANGED <<queueVars, posted, work, shutdown>>

Put(w) == /\ pc[w] = "put"
          /\ posted' = posted \cup {work[w]}
          /\ Goto(w, "ack")
          /\ UNCHANGED <<queueVars, stored, work, shutdown>>

\* Mutant: a failed step is repeated in place, without NAK.
StepFails_InPlace(w) == /\ pc[w] \in {"download", "compute", "upload", "put"}
                        /\ Goto(w, "decode")
                        /\ UNCHANGED <<queueVars, resultVars, work, shutdown>>

\* Any step may raise, a write also after it took effect.
StepFails(w) == /\ pc[w] \in {"download", "compute", "upload", "put"}
                /\ \/ UNCHANGED resultVars
                   \/ pc[w] = "upload" /\ stored' = stored \cup {work[w]} /\ UNCHANGED posted
                   \/ pc[w] = "put" /\ posted' = posted \cup {work[w]} /\ UNCHANGED stored
                /\ Goto(w, "nak")
                /\ UNCHANGED <<queueVars, work, shutdown>>

\* ack() only publishes: it arrives or is lost with the connection.
Ack(w) == /\ pc[w] = "ack"
          /\ AckArrives(work[w]) \/ UNCHANGED msg
          /\ work' = [work EXCEPT ![w] = NoJob]
          /\ Goto(w, "loop")
          /\ UNCHANGED <<payload, deliveries, resultVars, shutdown>>

\* An ack() that raises is inside the try block: the message is NAKed.
AckRaises(w) == /\ pc[w] = "ack"
                /\ Goto(w, "nak")
                /\ UNCHANGED <<queueVars, resultVars, work, shutdown>>

Nak(w) == /\ pc[w] = "nak"
          /\ NakArrives(work[w]) \/ UNCHANGED msg
          /\ work' = [work EXCEPT ![w] = NoJob]
          /\ Goto(w, "loop")
          /\ UNCHANGED <<payload, deliveries, resultVars, shutdown>>

\* A nak() that raises leaves _run: main logs it and exits with code 1.
NakRaises(w) == /\ pc[w] = "nak"
                /\ work' = [work EXCEPT ![w] = NoJob]
                /\ Goto(w, "exited")
                /\ UNCHANGED <<queueVars, resultVars, shutdown>>

\* The process is killed: out of memory on a large dataset, a reboot.
Killed(w) == /\ ~Gone(w)
             /\ work' = [work EXCEPT ![w] = NoJob]
             /\ Goto(w, "exited")
             /\ UNCHANGED <<queueVars, resultVars, shutdown>>

Signal(w) == /\ ~Gone(w) /\ ~shutdown[w]
             /\ shutdown' = [shutdown EXCEPT ![w] = TRUE]
             /\ UNCHANGED <<queueVars, resultVars, pc, work>>

-----------------------------------------------------------------------------
WorkerStep(w) ==
    \/ Connect(w) \/ ConnectFails(w)
    \/ LoopHead(w) \/ FetchGets(w) \/ FetchNothing(w)
    \/ Decode(w) \/ Download(w) \/ Compute(w) \/ Upload(w) \/ Put(w) \/ StepFails(w)
    \/ Ack(w) \/ AckRaises(w) \/ Nak(w) \/ NakRaises(w)

Next == \/ \E w \in Workers : WorkerStep(w) \/ Killed(w) \/ Signal(w)
        \/ \E j \in Jobs : AckWaitEnds(j)

\* Processes run, the ack wait is finite, and a process that keeps fetching while
\* messages are available is given one (a pull request is answered).
Fairness == /\ \A w \in Workers : WF_vars(WorkerStep(w)) /\ SF_vars(FetchGets(w))
            /\ \A j \in Jobs : WF_vars(AckWaitEnds(j))

Spec == Init /\ [][Next]_vars /\ Fairness

-----------------------------------------------------------------------------
\* Every variable keeps its type.
TypeOK ==
    /\ payload \in [Jobs -> Datasets \cup {Malformed}]
    /\ msg \in [Jobs -> {"available", "pending", "settled", "givenUp"}]
    /\ deliveries \in [Jobs -> 0 .. MaxDeliver]
    /\ stored \subseteq Jobs /\ posted \subseteq Jobs
    /\ pc \in [Workers -> {"connect", "loop", "fetch", "decode", "download", "compute", "upload",
                           "put", "ack", "nak", "stopped", "exited"}]
    /\ work \in [Workers -> Jobs \cup {NoJob}]
    /\ \A w \in Workers : work[w] = NoJob <=> pc[w] \in {"connect", "loop", "fetch", "stopped", "exited"}
    /\ shutdown \in [Workers -> BOOLEAN]

\* A message leaves the queue for good only when its work is done, or when there was
\* nothing to do: a crash, a failed step or a second process working on the same
\* message never turns it into an acknowledged one (stats_worker.py:325-334).
SettledMeansDone ==
    \A j \in Jobs : msg[j] = "settled" =>
        /\ payload[j] # Malformed
        /\ HasStats(payload[j]) => j \in stored /\ j \in posted

\* The server is never told about stats that are not in the bucket, also when two
\* processes work on the same message after its ack wait ended
\* (stats_worker.py:258-262).
PostedMeansStored == posted \subseteq stored

\* The statistics the server has of a feature take no frame twice and mix no two columns,
\* however many columns the files have for it; and they take every frame of the dataset
\* when each file can be read and has numbers for it in one column, the same in all.
\* An unreadable file is only missing from them (stats_worker.py:85-128).
OneColumn(ds, f, name) ==
    \A i \in DOMAIN ds.files :
        /\ ds.files[i].readable
        /\ {c \in Range(ds.files[i].columns) : FeatureOf[c.name] = f} = {[name |-> name, kind |-> "number"]}

FramesOnce(ds, f) ==
    /\ \A p, q \in StatsOf[ds][f] : /\ p[1] = q[1] => p = q
                                    /\ Column(ds, p).name = Column(ds, q).name
    /\ (\E name \in ColumnNames : OneColumn(ds, f, name))
          => {p[1] : p \in StatsOf[ds][f]} = DOMAIN ds.files

TakesFramesOnce == {ds \in Datasets : \A f \in DOMAIN StatsOf[ds] \ ds.cameras : FramesOnce(ds, f)}

PostedStatsTakeFramesOnce == \A j \in posted : payload[j] \in TakesFramesOnce

-----------------------------------------------------------------------------
(* The inductive invariant behind the safety properties. *)

\* A message that can still be delivered has a delivery left.
DeliveriesLeft == \A j \in Jobs : msg[j] = "available" => deliveries[j] < MaxDeliver

\* What a process at a step of a job knows about it.
Finished(j) == payload[j] # Malformed /\ (HasStats(payload[j]) => j \in stored /\ j \in posted)

StepsInOrder ==
    \A w \in Workers :
        /\ pc[w] \in {"download", "compute", "upload", "put"} => payload[work[w]] # Malformed
        /\ pc[w] = "put" => work[w] \in stored
        /\ pc[w] = "ack" => Finished(work[w])

PostedKnown == \A j \in posted : payload[j] # Malformed

IInv == /\ TypeOK /\ DeliveriesLeft /\ StepsInOrder /\ SettledMeansDone /\ PostedMeansStored
        /\ PostedKnown

-----------------------------------------------------------------------------
\* Every message is settled or given up in the end, unless all processes are gone.
JobsLeaveTheQueue ==
    \A j \in Jobs : <>(msg[j] \in {"settled", "givenUp"} \/ \A w \in Workers : Gone(w))

\* A signal stops the process once its job is over.
SignalStops == \A w \in Workers : shutdown[w] ~> Gone(w)
=============================================================================
