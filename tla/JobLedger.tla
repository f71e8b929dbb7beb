----------------------------- MODULE JobLedger -----------------------------
(***************************************************************************)
(* What the server may rely on from one worker process, whatever happens   *)
(* to threads, calls and signals: it works on one job at a time, on each   *)
(* job at most once and only after the server assigned it, it decides at   *)
(* most one verdict per job and only while it works on that job, every     *)
(* verdict that takes effect is one it decided, "complete" only once the   *)
(* artifact is stored, and it does not hold on to a job for ever.          *)
(***************************************************************************)
CONSTANTS Jobs, NoJob

VARIABLES
    status,     \* job -> status on the server
    holder,     \* the job the worker works on, or NoJob
    left,       \* the jobs the worker has finished with
    stored,     \* the jobs whose artifact is stored
    decided     \* the <<job, verdict>> pairs decided so far

vars == <<status, holder, left, stored, decided>>

Init == /\ status = [j \in Jobs |-> "pending"]
        /\ holder = NoJob
        /\ left = {}
        /\ stored = {}
        /\ decided = {}

Assign(j) == /\ status[j] = "pending"
             /\ status' = [status EXCEPT ![j] = "running"]
             /\ UNCHANGED <<holder, left, stored, decided>>

Cancel(j) == /\ status[j] \in {"pending", "running"}
             /\ status' = [status EXCEPT ![j] = "cancelled"]
             /\ UNCHANGED <<holder, left, stored, decided>>

Hold(j) == /\ holder = NoJob
           /\ status[j] # "pending"
           /\ j \notin left
           /\ holder' = j
           /\ UNCHANGED <<status, left, stored, decided>>

Fail(j) == /\ holder = j
           /\ ~ \E v \in {"complete", "failed"} : <<j, v>> \in decided
           /\ decided' = decided \cup {<<j, "failed">>}
           /\ UNCHANGED <<status, holder, left, stored>>

Complete(j) == /\ holder = j
               /\ ~ \E v \in {"complete", "failed"} : <<j, v>> \in decided
               /\ stored' = stored \cup {j}
               /\ decided' = decided \cup {<<j, "complete">>}
               /\ UNCHANGED <<status, holder, left>>

\* A decided verdict reaches the server, once, more than once, or never.
TakeEffect(j) ==
    /\ \/ <<j, "failed">> \in decided /\ status' = [status EXCEPT ![j] = "failed"]
       \/ <<j, "complete">> \in decided /\ status' = [status EXCEPT ![j] = "completed"]
    /\ UNCHANGED <<holder, left, stored, decided>>

Leave == /\ holder # NoJob
         /\ holder' = NoJob
         /\ left' = left \cup {holder}
         /\ UNCHANGED <<status, stored, decided>>

Next == \/ \E j \in Jobs : \/ Assign(j) \/ Cancel(j) \/ Hold(j)
                           \/ Fail(j) \/ Complete(j) \/ TakeEffect(j)
        \/ Leave

SafeSpec == Init /\ [][Next]_vars
LetsGo == WF_vars(Leave)
Spec == SafeSpec /\ LetsGo

-----------------------------------------------------------------------------
(* What follows for the server. *)

\* The life of a job.  A cancel does not keep a verdict from taking effect; what was
\* completed or failed stays so, whatever is repeated or arrives late, and nothing goes
\* back to an earlier status.
Moves == {<<"pending", "running">>, <<"pending", "cancelled">>, <<"running", "cancelled">>}
         \cup {"running", "cancelled"} \X {"completed", "failed"}

StatusMovesOn ==
    [][\A j \in Jobs : status'[j] # status[j] => <<status[j], status'[j]>> \in Moves]_vars

\* The inductive invariant behind it: one verdict at most, none for a pending job, and a
\* closed job has the one it shows.
VerdictsKnown ==
    /\ status \in [Jobs -> {"pending", "running", "completed", "failed", "cancelled"}]
    /\ \A j \in Jobs :
          /\ <<j, "complete">> \notin decided \/ <<j, "failed">> \notin decided
          /\ status[j] = "completed" => <<j, "complete">> \in decided
          /\ status[j] = "failed" => <<j, "failed">> \in decided
          /\ status[j] = "pending" =>
                j # holder /\ <<j, "complete">> \notin decided /\ <<j, "failed">> \notin decided
=============================================================================
