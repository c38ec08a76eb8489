---------------------------- MODULE MCDurableJobs ----------------------------
(***************************************************************************)
(* Instances of DurableJobs for TLC.  p is a planning row, r a workflow_run *)
(* row, u an unshare row, v a voice row.                                   *)
(***************************************************************************)
EXTENDS DurableJobs, TLC

CONSTANTS p, p2, r, u, v, w1, w2

\* Every poller drains the whole queue, one row at a time.
OneQueue == [w \in Workers |-> Jobs]
LimitOne == [w \in Workers |-> 1]

\* w1 is the general poller (limit 1), w2 a voice poller (limit 10, so never
\* reached here).
TwoQueues == [w \in Workers |-> IF w = w1 THEN Jobs \ VoiceJobs ELSE VoiceJobs]
TwoLimits == [w \in Workers |-> IF w = w1 THEN 1 ELSE 10]

Pollers == Permutations(Workers)
PollersAndPlans == Permutations(Workers) \cup Permutations(PlanJobs)
==============================================================================
