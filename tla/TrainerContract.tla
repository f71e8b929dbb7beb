--------------------------- MODULE TrainerContract ---------------------------
(***************************************************************************)
(* What the job runner is promised by a trainer (trainers/base.py): train  *)
(* returns a result, raises CancelledError, or raises something else.      *)
(* _process_job posts /complete for the first, nothing for the second,     *)
(* /failed for the third, and then takes the next job: so what train has   *)
(* started must be over when it is, and a trainer that was told to stop    *)
(* must.                                                                   *)
(***************************************************************************)
VARIABLES
    told,       \* on_progress returned False while training was under way
    busy,       \* a child process is training
    outcome     \* "none", "result", "cancelled", "failed"

vars == <<told, busy, outcome>>

Init == told = FALSE /\ busy = FALSE /\ outcome = "none"

\* Work in a child process, and its end, which is not the trainer's to decide.
Engage  == outcome = "none" /\ ~told /\ ~busy /\ busy' = TRUE /\ UNCHANGED <<told, outcome>>
Release == busy /\ busy' = FALSE /\ UNCHANGED <<told, outcome>>

ToldToStop == outcome = "none" /\ ~told /\ told' = TRUE /\ UNCHANGED <<busy, outcome>>

Result    == outcome = "none" /\ ~told /\ ~busy /\ outcome' = "result" /\ UNCHANGED <<told, busy>>
Cancelled == outcome = "none" /\ told /\ ~busy /\ outcome' = "cancelled" /\ UNCHANGED <<told, busy>>

\* A child that survives SIGKILL is all that a trainer may leave behind.
Failed == outcome = "none" /\ (busy => told) /\ outcome' = "failed" /\ UNCHANGED <<told, busy>>

Stop == told /\ (Cancelled \/ Failed)

Next == Engage \/ Release \/ ToldToStop \/ Result \/ Cancelled \/ Failed

SafeSpec == Init /\ [][Next]_vars

Spec == SafeSpec /\ WF_vars(Stop)

\* What the job runner makes of it when it takes the next job: after a result nobody had
\* asked the trainer to stop, after a cancellation somebody had, and a child that still
\* trains is one that survived being told (base.py:71-79, worker.py:200-228).
EndIsClean ==
    /\ outcome = "result" => ~told /\ ~busy
    /\ outcome = "cancelled" => told /\ ~busy
    /\ outcome = "failed" => (busy => told)
=============================================================================
