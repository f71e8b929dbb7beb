--------------------------- MODULE TrainingServer ---------------------------
(***************************************************************************)
(* The NeoDEM server, as the worker sees it.  The server is not in this    *)
(* repository: every operator below is the reading that callbacks.py,      *)
(* worker.py and trainers/base.py rely on.                                 *)
(*                                                                         *)
(*   - /claim hands a pending job to the worker and marks it running, or   *)
(*     answers 204 when there is none (callbacks.py:89-93);                *)
(*   - /heartbeat answers "stop" and /progress answers "cancel" for a job  *)
(*     that was cancelled, "continue" otherwise (callbacks.py:97 and 127,  *)
(*     worker.py:70 and 202);                                              *)
(*   - /complete and /failed set the status whatever it was: "posting      *)
(*     /failed here would clobber that state" (worker.py:216);             *)
(*   - a user cancels through /jobs/:id/cancel (worker.py:215).            *)
(***************************************************************************)

CONSTANTS
    Jobs,    \* the training jobs the server knows
    NoJob    \* the absent job: "none" of ClaimedJob | None

ASSUME NoJobAssumption == NoJob \notin Jobs
ASSUME RepliesAssumption == Jobs \cap {"continue", "stop", "ok"} = {}

VARIABLES
    status,          \* job -> its status on the server
    userCancelled    \* history: the jobs a user ever cancelled

serverVars == <<status, userCancelled>>

Statuses == {"pending", "running", "completed", "failed", "cancelled"}

\* The callbacks that close a job, and the whole HTTP surface of the worker.
Verdicts == {"complete", "failed"}
Ops == {"claim", "heartbeat", "progress"} \cup Verdicts

\* What a call can return: a job or none for /claim, the status of the job for
\* /heartbeat and /progress ("stop" stands for "cancel" too), "ok" for the rest.
Replies == Jobs \cup {NoJob, "continue", "stop", "ok"}

ServerInit == /\ status = [j \in Jobs |-> "pending"]
              /\ userCancelled = {}

ServeClaim(reply) ==
    /\ \/ /\ reply \in Jobs
          /\ status[reply] = "pending"
          /\ status' = [status EXCEPT ![reply] = "running"]
       \/ /\ reply = NoJob
          /\ \A j \in Jobs : status[j] # "pending"
          /\ UNCHANGED status
    /\ UNCHANGED userCancelled

ServePoll(j, reply) ==
    /\ reply = IF status[j] = "cancelled" THEN "stop" ELSE "continue"
    /\ UNCHANGED serverVars

ServeVerdict(op, j, reply) ==
    /\ reply = "ok"
    /\ status' = [status EXCEPT ![j] = IF op = "complete" THEN "completed"
                                                          ELSE "failed"]
    /\ UNCHANGED userCancelled

\* The server handles one request and answers reply.
Serve(op, j, reply) ==
    \/ op = "claim" /\ ServeClaim(reply)
    \/ op \in {"heartbeat", "progress"} /\ ServePoll(j, reply)
    \/ op \in Verdicts /\ ServeVerdict(op, j, reply)

UserCancel(j) ==
    /\ status[j] \in {"pending", "running"}
    /\ status' = [status EXCEPT ![j] = "cancelled"]
    /\ userCancelled' = userCancelled \cup {j}

=============================================================================
