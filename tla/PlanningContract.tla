--------------------------- MODULE PlanningContract ---------------------------
(***************************************************************************)
(* What the durable queue promises the kinds whose completion is atomic:   *)
(* once enqueued, a planning job is decided once and for good, and its     *)
(* plan is committed if and only if the decision is "done".                *)
(***************************************************************************)
EXTENDS Naturals

CONSTANT Plans

VARIABLES outcome,  \* [Plans -> {"none", "open", "done", "ignored", "failed"}]
          plan      \* how many times each plan was committed

Init == /\ outcome = [j \in Plans |-> "none"]
        /\ plan = [j \in Plans |-> 0]

Enqueue(j) == /\ outcome[j] = "none"
              /\ outcome' = [outcome EXCEPT ![j] = "open"]
              /\ UNCHANGED plan

Commit(j) == /\ outcome[j] = "open"
             /\ outcome' = [outcome EXCEPT ![j] = "done"]
             /\ plan' = [plan EXCEPT ![j] = @ + 1]

\* The tenant is inactive, or every attempt was used up: nothing is committed.
Close(j, why) == /\ outcome[j] = "open"
                 /\ outcome' = [outcome EXCEPT ![j] = why]
                 /\ UNCHANGED plan

Decide(j) == Commit(j) \/ Close(j, "ignored") \/ Close(j, "failed")

Next == \E j \in Plans : Enqueue(j) \/ Decide(j)

Spec == Init /\ [][Next]_<<outcome, plan>>

\* Every job that was enqueued is decided.
FairSpec == Spec /\ \A j \in Plans : WF_<<outcome, plan>>(Decide(j))
================================================================================
