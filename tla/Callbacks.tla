----------------------------- MODULE Callbacks -----------------------------
(***************************************************************************)
(* ServerClient (callbacks.py): one blocking HTTP call per thread, over a  *)
(* network that can lose the request, lose the answer, or hand the request *)
(* to the server after the client has stopped waiting for it.              *)
(*                                                                         *)
(* call[t] is the call the thread t is blocked in: which endpoint, for     *)
(* which job, which pass of the loop of _post it is in, and how far that   *)
(* attempt got: "sent" (on its way), "served" (handled, the answer on its  *)
(* way back), "done" (_post_json returned) or "raised" (it threw).         *)
(***************************************************************************)
EXTENDS TrainingServer, Naturals

CONSTANTS
    Threads,         \* the threads that share one ServerClient
    MaxRetries,      \* _MAX_RETRIES, callbacks.py:20 (4 in the code)
    MaxLateClaims    \* bound: claim requests that outlive their attempt

ASSUME MaxRetriesAssumption == MaxRetries \in Nat \ {0}
ASSUME MaxLateClaimsAssumption == MaxLateClaims \in Nat

VARIABLES
    call,          \* thread -> the call it is in
    late,          \* timed-out /complete and /failed requests still under way
    lateClaims,    \* number of timed-out /claim requests still under way
    unseen         \* history: jobs assigned by a claim whose answer was lost

backlogVars == <<late, lateClaims, unseen>>
clientVars == <<call, backlogVars>>

Idle == [op |-> "claim", job |-> NoJob, attempt |-> 1, phase |-> "idle",
         reply |-> NoJob]

Calls == [op : Ops, job : Jobs \cup {NoJob}, attempt : 1 .. MaxRetries,
          phase : {"idle", "sent", "served", "done", "raised"}, reply : Replies]

ClientInit == /\ call = [t \in Threads |-> Idle]
              /\ late = {}
              /\ lateClaims = 0
              /\ unseen = {}

InFlight(t) == call[t].phase \in {"sent", "served"}
Ended(t)    == call[t].phase \in {"done", "raised"}

\* A job that only the lost answer of a claim named: the worker never learns
\* that it owns it.
Forgotten(c) == IF c.op = "claim" /\ c.phase = "served" THEN {c.reply} \cap Jobs
                                                        ELSE {}

-----------------------------------------------------------------------------
(* The calling thread. *)

\* _post is entered: the first attempt leaves.
Issue(t, op, j) ==
    /\ call[t].phase = "idle"
    /\ call' = [call EXCEPT ![t] = [op |-> op, job |-> j, attempt |-> 1,
                                    phase |-> "sent", reply |-> NoJob]]

\* The caller takes the result, or the exception, and goes on.
Consume(t) ==
    /\ Ended(t)
    /\ call' = [call EXCEPT ![t] = Idle]

-----------------------------------------------------------------------------
(* One attempt. *)

\* The call of t gets as far as phase in its n-th attempt.
Reaches(t, n, phase, reply) ==
    call' = [call EXCEPT ![t] = [op |-> call[t].op, job |-> call[t].job, attempt |-> n,
                                 phase |-> phase, reply |-> reply]]

ServerHandles(t) ==
    /\ call[t].phase = "sent"
    /\ \E reply \in Replies :
          /\ Serve(call[t].op, call[t].job, reply)
          /\ Reaches(t, call[t].attempt, "served", reply)
    /\ UNCHANGED backlogVars

ReplyArrives(t) ==
    /\ call[t].phase = "served"
    /\ Reaches(t, call[t].attempt, "done", call[t].reply)
    /\ UNCHANGED <<serverVars, backlogVars>>

\* Mutants of the loop of _post: one pass too many; no bound; the answer of an
\* earlier attempt is kept.
NextAttempt_OneMore(t) ==
    IF call[t].attempt <= MaxRetries
    THEN Reaches(t, call[t].attempt + 1, "sent", NoJob)
    ELSE Reaches(t, call[t].attempt, "raised", NoJob)
NextAttempt_Unbounded(t) ==
    Reaches(t, call[t].attempt, "sent", NoJob)
NextAttempt_KeepsReply(t) ==
    IF call[t].attempt < MaxRetries
    THEN Reaches(t, call[t].attempt + 1, "sent", call[t].reply)
    ELSE Reaches(t, call[t].attempt, "raised", call[t].reply)

\* httpx.ConnectError or TimeoutException: sleep, then the next pass of the
\* loop; after the last one _post raises last_err.
NextAttempt(t) ==
    IF call[t].attempt < MaxRetries
    THEN Reaches(t, call[t].attempt + 1, "sent", NoJob)
    ELSE Reaches(t, call[t].attempt, "raised", NoJob)

\* The request of this attempt may still reach the server.  Only claims and
\* verdicts change the server's job; a late heartbeat or progress does not.
\* The attempts of a claim are counted, those of a verdict are told apart.
MayArriveLate(t) ==
    \/ UNCHANGED <<late, lateClaims>>
    \/ /\ call[t].phase = "sent"
       /\ call[t].op \in Verdicts
       /\ late' = late \cup {[op |-> call[t].op, job |-> call[t].job,
                              attempt |-> call[t].attempt]}
       /\ UNCHANGED lateClaims
    \/ /\ call[t].phase = "sent"
       /\ call[t].op = "claim"
       /\ lateClaims < MaxLateClaims
       /\ lateClaims' = lateClaims + 1
       /\ UNCHANGED late

RetryableError(t) ==
    /\ InFlight(t)
    /\ MayArriveLate(t)
    /\ NextAttempt(t)
    /\ unseen' = unseen \cup Forgotten(call[t])
    /\ UNCHANGED serverVars

\* Anything else ends the call at once: a 4xx or 5xx answer (raise_for_status),
\* another httpx error such as a reset connection, a body that is not the
\* expected JSON.  The request may have been, or still be, handled all the same.
FatalError(t) ==
    /\ InFlight(t)
    /\ MayArriveLate(t)
    /\ Reaches(t, call[t].attempt, "raised", NoJob)
    /\ unseen' = unseen \cup Forgotten(call[t])
    /\ UNCHANGED serverVars

-----------------------------------------------------------------------------
(* Requests that outlived their attempt. *)

LateVerdict ==
    \E r \in late :
        /\ Serve(r.op, r.job, "ok")
        /\ late' = late \ {r}
        /\ UNCHANGED <<call, lateClaims, unseen>>

LateClaim ==
    /\ lateClaims > 0
    /\ lateClaims' = lateClaims - 1
    /\ \E reply \in Jobs \cup {NoJob} :
          /\ Serve("claim", NoJob, reply)
          /\ unseen' = unseen \cup ({reply} \ {NoJob})
    /\ UNCHANGED <<call, late>>

CallStep(t) ==
    ServerHandles(t) \/ ReplyArrives(t) \/ RetryableError(t) \/ FatalError(t)

LateStep == LateVerdict \/ LateClaim

=============================================================================
