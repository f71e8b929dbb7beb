--------------------------- MODULE CallbackClient ---------------------------
(***************************************************************************)
(* The callback client alone: threads that make any calls they like, each  *)
(* verdict (/complete or /failed) at most once per job, as worker.py does. *)
(* History variables count what the retry loop did.                        *)
(***************************************************************************)
EXTENDS Callbacks, FiniteSets

VARIABLES
    tries,      \* history: job -> attempts made to post its verdict
    effects,    \* history: job -> times the server handled its verdict
    outcome,    \* history: job -> how its verdict call ended
    raisedBy,   \* history: thread -> the kind of error its last call raised
    taken       \* history: the jobs a claim returned to its caller

histVars == <<tries, effects, outcome, raisedBy, taken>>
vars == <<serverVars, clientVars, histVars>>

Init == /\ ServerInit
        /\ ClientInit
        /\ tries = [j \in Jobs |-> 0]
        /\ effects = [j \in Jobs |-> 0]
        /\ outcome = [j \in Jobs |-> "none"]
        /\ raisedBy = [t \in Threads |-> "none"]
        /\ taken = {}

IsVerdictOf(r, j) == r.op \in Verdicts /\ r.job = j

\* A counter (an outcome) per job, moved for the job whose verdict t is posting.
Counted(counter, t) ==
    [j \in Jobs |-> counter[j] + (IF IsVerdictOf(call[t], j) THEN 1 ELSE 0)]
Recorded(t, how) ==
    [j \in Jobs |-> IF IsVerdictOf(call[t], j) THEN how ELSE outcome[j]]

Begin(t) ==
    \E op \in Ops, j \in Jobs \cup {NoJob} :
        /\ op = "claim" <=> j = NoJob
        /\ op \in Verdicts => tries[j] = 0
        /\ Issue(t, op, j)
        /\ tries' = [k \in Jobs |-> IF op \in Verdicts /\ j = k THEN 1 ELSE tries[k]]
        /\ outcome' = [k \in Jobs |->
              IF op \in Verdicts /\ j = k THEN "busy" ELSE outcome[k]]
        /\ raisedBy' = [raisedBy EXCEPT ![t] = "none"]
        /\ UNCHANGED <<serverVars, backlogVars, effects, taken>>

Finish(t) ==
    /\ Consume(t)
    /\ taken' = taken \cup ({call[t].reply} \cap Jobs)
    /\ UNCHANGED <<serverVars, backlogVars, tries, effects, outcome, raisedBy>>

Handle(t) ==
    /\ ServerHandles(t)
    /\ effects' = Counted(effects, t)
    /\ UNCHANGED <<tries, outcome, raisedBy, taken>>

Answer(t) ==
    /\ ReplyArrives(t)
    /\ outcome' = Recorded(t, "returned")
    /\ UNCHANGED <<tries, effects, raisedBy, taken>>

\* The except clause of _post, and what follows it.
Retry(t) ==
    /\ RetryableError(t)
    /\ IF call[t].attempt < MaxRetries
       THEN /\ tries' = Counted(tries, t)
            /\ UNCHANGED <<outcome, raisedBy>>
       ELSE /\ outcome' = Recorded(t, "raised")
            /\ raisedBy' = [raisedBy EXCEPT ![t] = "network"]
            /\ UNCHANGED tries
    /\ UNCHANGED <<effects, taken>>

\* Errors that are transient too but not in the except clause: httpx.ReadError,
\* RemoteProtocolError, a 503 from a restarting server.  The others ("refused")
\* are a verdict of the server that no retry changes.
GiveUpAtOnce(t) ==
    /\ FatalError(t)
    /\ \E why \in {"network", "refused"} :
          raisedBy' = [raisedBy EXCEPT ![t] = why]
    /\ outcome' = Recorded(t, "raised")
    /\ UNCHANGED <<tries, effects, taken>>

LateOf(requests, j) == {r \in requests : r.job = j}

Overdue ==
    \/ /\ LateClaim
       /\ UNCHANGED histVars
    \/ /\ LateVerdict
       /\ effects' = [j \in Jobs |-> effects[j] + Cardinality(LateOf(late \ late', j))]
       /\ UNCHANGED <<tries, outcome, raisedBy, taken>>

Cancel(j) ==
    /\ UserCancel(j)
    /\ UNCHANGED <<clientVars, histVars>>

Attempt(t) == Handle(t) \/ Answer(t) \/ Retry(t) \/ GiveUpAtOnce(t)

Next == \/ \E t \in Threads : Begin(t) \/ Attempt(t) \/ Finish(t)
        \/ Overdue
        \/ \E j \in Jobs : Cancel(j)

\* httpx bounds every attempt by its timeout (timeout_sec, callbacks.py:69), and
\* the loop of _post is finite: an attempt that has started ends.
Fairness == \A t \in Threads : WF_vars(Attempt(t)) /\ WF_vars(Finish(t))

Spec == Init /\ [][Next]_vars /\ Fairness

-----------------------------------------------------------------------------
\* Every variable keeps its type.
TypeOK ==
    /\ status \in [Jobs -> Statuses]
    /\ userCancelled \subseteq Jobs
    /\ call \in [Threads -> Calls]
    /\ late \subseteq [op : Verdicts, job : Jobs, attempt : 1 .. MaxRetries]
    /\ lateClaims \in 0 .. MaxLateClaims
    /\ unseen \subseteq Jobs
    /\ tries \in [Jobs -> 0 .. MaxRetries]
    /\ effects \in [Jobs -> 0 .. MaxRetries]
    /\ outcome \in [Jobs -> {"none", "busy", "returned", "raised"}]
    /\ raisedBy \in [Threads -> {"none", "network", "refused"}]
    /\ taken \subseteq Jobs

\* A verdict never acts on the server more often than the loop of _post sent it
\* (callbacks.py:184), whatever was lost, delayed or answered too late: what has
\* acted, what is on its way and what may still arrive add up to the attempts.
Sent(calls, j) == \E t \in Threads : IsVerdictOf(calls[t], j) /\ calls[t].phase = "sent"
Outstanding(j) == Cardinality(LateOf(late, j)) + (IF Sent(call, j) THEN 1 ELSE 0)

EffectsWithinTries ==
    \A j \in Jobs : effects[j] + Outstanding(j) <= tries[j]

\* Every job the server handed out by /claim is in exactly one place: its reply is
\* on its way to a thread, a caller has taken it (callbacks.py:89-93), or the answer
\* that named it was lost and nobody but the server knows.
InReply(calls, j) == \E t \in Threads : calls[t].reply = j

ClaimsAccountedFor ==
    \A j \in Jobs :
        /\ status[j] = "running" => InReply(call, j) \/ j \in taken \/ j \in unseen
        /\ ~(InReply(call, j) /\ j \in taken)
        /\ ~(InReply(call, j) /\ j \in unseen)
        /\ ~(j \in taken /\ j \in unseen)

\* Every call ends, however the network behaves (callbacks.py:184-200).
CallsEnd == \A t \in Threads : (call[t].phase # "idle") ~> (call[t].phase = "idle")

\* callbacks.py:5 "Uses exponential backoff retries ... We must not drop callbacks
\* on transient errors": a call that raised because of the network has used every
\* attempt.  Only ConnectError and TimeoutException are retried (callbacks.py:187).
TransientErrorsAreRetried ==
    \A t \in Threads :
        call[t].phase = "raised" /\ raisedBy[t] = "network" => call[t].attempt = MaxRetries

-----------------------------------------------------------------------------
Abstract == INSTANCE RemoteCall

\* The verdict calls refine the abstract remote call: each acts at most
\* _MAX_RETRIES times (callbacks.py:184), has acted when it returns, and ends.
IsRemoteCall == Abstract!Spec
IsRemoteCallSafely == Abstract!SafeSpec

-----------------------------------------------------------------------------
(* The inductive invariant behind the safety properties. *)

\* Only a claim answers with a job, no two calls with the same one, and none that the
\* server still holds as pending.
ClaimsKnown ==
    /\ \A t \in Threads :
          /\ call[t].job = NoJob => call[t].op = "claim"
          /\ call[t].reply \in Jobs =>
                call[t].op = "claim" /\ call[t].phase \in {"served", "done"}
    /\ \A t, u \in Threads : call[t].reply \in Jobs /\ call[u].reply = call[t].reply => t = u
    /\ \A j \in Jobs : status[j] = "pending" => ~InReply(call, j) /\ j \notin taken /\ j \notin unseen
    /\ ClaimsAccountedFor

\* One call at most posts the verdict of a job; the attempts of that call are tries.
VerdictsKnown ==
    /\ \A t, u \in Threads, j \in Jobs :
          IsVerdictOf(call[t], j) /\ IsVerdictOf(call[u], j) => t = u
    /\ \A j \in Jobs : /\ outcome[j] = "none" <=> tries[j] = 0
                       /\ tries[j] = 0 => LateOf(late, j) = {} /\ \A t \in Threads : ~IsVerdictOf(call[t], j)
    /\ \A t \in Threads, j \in Jobs : IsVerdictOf(call[t], j) =>
          /\ InFlight(t) => outcome[j] = "busy" /\ tries[j] = call[t].attempt
          /\ call[t].phase = "served" => effects[j] > 0
    /\ IsFiniteSet(late)
    /\ EffectsWithinTries

ClientInv == TypeOK /\ ClaimsKnown /\ VerdictsKnown
=============================================================================
