----------------------------- MODULE RemoteCall -----------------------------
(***************************************************************************)
(* What the callbacks promise their caller, one verdict call per job: a    *)
(* call ends; it has acted on the server at least once if it returns; it   *)
(* never acts more than MaxRetries times.  After an error nothing is       *)
(* known: the effect may be there, may still come, or may never come.      *)
(***************************************************************************)
EXTENDS Naturals

CONSTANTS Jobs, MaxRetries

VARIABLES
    outcome,    \* job -> "none", "busy", "returned" or "raised"
    effects     \* job -> how often the server acted on its call

vars == <<outcome, effects>>

Init == /\ outcome = [j \in Jobs |-> "none"]
        /\ effects = [j \in Jobs |-> 0]

Begin(j) == /\ outcome[j] = "none"
            /\ outcome' = [outcome EXCEPT ![j] = "busy"]
            /\ UNCHANGED effects

Act(j) == /\ outcome[j] # "none"
          /\ effects[j] < MaxRetries
          /\ effects' = [effects EXCEPT ![j] = @ + 1]
          /\ UNCHANGED outcome

Return(j) == /\ outcome[j] = "busy"
             /\ effects[j] > 0
             /\ outcome' = [outcome EXCEPT ![j] = "returned"]
             /\ UNCHANGED effects

Raise(j) == /\ outcome[j] = "busy"
            /\ outcome' = [outcome EXCEPT ![j] = "raised"]
            /\ UNCHANGED effects

Next == \E j \in Jobs : Begin(j) \/ Act(j) \/ Return(j) \/ Raise(j)

SafeSpec == Init /\ [][Next]_vars

Spec == /\ SafeSpec
        /\ \A j \in Jobs : WF_vars(Return(j) \/ Raise(j))
=============================================================================
