-------------------------- MODULE DurableJobs_proofs --------------------------
(***************************************************************************)
(* Safety of the durable queue for every number of rows, workers, callers, *)
(* attempts and crashes.                                                   *)
(***************************************************************************)
EXTENDS DurableJobs, TLAPS

USE KindsAssumption, ReopenAssumption, BoundsAssumption

------------------------------------------------------------------------------
(***************************************************************************)
(* The helpers that order available_at and end an attempt.                 *)
(***************************************************************************)

\* Placing a row among the others leaves the order a relation on the rows.
LEMMA PlaceTyped ==
    ASSUME ahead \subseteq Jobs \X Jobs, NEW j \in Jobs,
           NEW before \in SUBSET Jobs, Place(j, before)
    PROVE  ahead' \subseteq Jobs \X Jobs
<1>1. Without(j) \subseteq Jobs \X Jobs
  BY DEF Without
<1>2. before \X {j} \subseteq Jobs \X Jobs
  OBVIOUS
<1>3. {j} \X (Live \ (before \cup {j})) \subseteq Jobs \X Jobs
  BY DEF Live
<1> QED
  BY <1>1, <1>2, <1>3 DEF Place

LEMMA OrderTyped ==
    ASSUME RowsTyped, NEW j \in Jobs,
           AvailableNow(j) \/ AvailableLater(j) \/ LeaveOrder(j)
    PROVE  due' \in [Jobs -> BOOLEAN] /\ ahead' \subseteq Jobs \X Jobs
<1>1. due \in [Jobs -> BOOLEAN] /\ ahead \subseteq Jobs \X Jobs
  BY DEF RowsTyped
<1>2. CASE AvailableNow(j)
  <2>1. {k \in Live \ {j} : due[k]} \in SUBSET Jobs
    BY DEF Live
  <2> QED
    BY <1>1, <1>2, <2>1, PlaceTyped DEF AvailableNow
<1>3. CASE AvailableLater(j)
  <2>1. PICK earlier \in SUBSET {k \in Live \ {j} : ~due[k]} :
           Place(j, earlier \cup {k \in Live \ {j} : due[k]})
    BY <1>3 DEF AvailableLater
  <2>2. earlier \cup {k \in Live \ {j} : due[k]} \in SUBSET Jobs
    BY DEF Live
  <2>3. ahead' \subseteq Jobs \X Jobs
    BY <1>1, <2>1, <2>2, PlaceTyped
  <2> QED
    BY <1>1, <1>3, <2>3 DEF AvailableLater
<1>4. CASE LeaveOrder(j)
  BY <1>1, <1>4 DEF LeaveOrder, Without
<1> QED
  BY <1>2, <1>3, <1>4

\* Whatever fail_job decides, it leaves a well-typed row without a lease, and a
\* row it makes pending has attempts left when the caller read them in this
\* transaction.
LEMMA FailTyped ==
    ASSUME RowsTyped, NEW j \in Jobs, NEW att \in Nat, NEW retryable \in BOOLEAN,
           FailJob(j, att, retryable)
    PROVE  /\ status' = [status EXCEPT ![j] = status'[j]]
           /\ status'[j] \in {"pending", "failed"}
           /\ attempts' \in [Jobs -> 0..MaxAttempts]
           /\ \A k \in Jobs \ {j} : attempts'[k] = attempts[k]
           /\ status'[j] = "pending" => attempts'[j] = attempts[j] /\ att < MaxAttempts
           /\ leased' = [leased EXCEPT ![j] = 0]
           /\ expired' = [expired EXCEPT ![j] = FALSE]
           /\ due' \in [Jobs -> BOOLEAN] /\ ahead' \subseteq Jobs \X Jobs
           /\ result' = result
<1>1. due' \in [Jobs -> BOOLEAN] /\ ahead' \subseteq Jobs \X Jobs
  BY OrderTyped DEF FailJob
<1>2. /\ leased' = [leased EXCEPT ![j] = 0]
      /\ expired' = [expired EXCEPT ![j] = FALSE]
      /\ result' = result
  BY DEF FailJob
<1>3. \/ /\ status' = [status EXCEPT ![j] = "failed"]
         /\ attempts' = attempts \/ attempts' = [attempts EXCEPT ![j] = MaxAttempts]
      \/ /\ status' = [status EXCEPT ![j] = "pending"]
         /\ attempts' = attempts /\ att < MaxAttempts
  BY DEF FailJob
<1> QED
  BY <1>1, <1>2, <1>3 DEF RowsTyped, Statuses

\* So the rows stay well typed, whichever worker fails them.
LEMMA FailRowsTyped ==
    ASSUME RowsTyped, NEW j \in Jobs, NEW att \in Nat, NEW retryable \in BOOLEAN,
           FailJob(j, att, retryable), UNCHANGED countVars
    PROVE  RowsTyped'
<1>1. /\ status' = [status EXCEPT ![j] = status'[j]]
      /\ status'[j] \in Statuses
      /\ leased' = [leased EXCEPT ![j] = 0]
      /\ expired' = [expired EXCEPT ![j] = FALSE]
      /\ attempts' \in [Jobs -> 0..MaxAttempts]
      /\ due' \in [Jobs -> BOOLEAN] /\ ahead' \subseteq Jobs \X Jobs
      /\ result' = result
  BY FailTyped DEF Statuses
<1>2. UNCHANGED <<claims, effects, reopens, crashes>>
  BY DEF countVars
<1> QED
  BY <1>1, <1>2 DEF RowsTyped

------------------------------------------------------------------------------
(***************************************************************************)
(* The inductive invariant.                                                *)
(***************************************************************************)

\* Only kinds that are not redacted reach the unchecked failure path.
UncheckedIsPlain ==
    \A w \in Workers : pc[w] \in {"fail", "failForGood"} => claim[w].job \notin Redacted

\* A worker about to finish has a result to write.
FinishHasResult ==
    \A w \in Workers : pc[w] = "finish" => claim[w].result \in {"done", "ignored"}

\* A caller re-opens only rows whose enqueuers pass a requeue flag.
ReopeningIsPlain == \A c \in Callers : reopening[c] \cap Redacted = {}

\* A row that does not exist yet has used no attempt.
AbsentIsFresh == \A j \in Jobs : status[j] = "absent" => attempts[j] = 0

IInv == /\ TypeOK
        /\ UncheckedIsPlain
        /\ FinishHasResult
        /\ ReopeningIsPlain
        /\ AbsentIsFresh
        /\ PlanExactlyOnce
        /\ RedactedPendingIsClaimable

LEMMA InitIInv == Init => IInv
BY DEF Init, IInv, TypeOK, RowsTyped, WorkersTyped, UncheckedIsPlain, FinishHasResult,
       ReopeningIsPlain, AbsentIsFresh, PlanExactlyOnce, RedactedPendingIsClaimable,
       PendingIsClaimable, Redacted, Statuses, NoClaim, Claims

\* The parts of the invariant about the rows alone survive a fail_job on a row
\* that no plan completed, if it checks its own attempts when it is redacted.
LEMMA FailKeepsRows ==
    ASSUME RowsTyped, AbsentIsFresh, PlanExactlyOnce, RedactedPendingIsClaimable,
           NEW j \in Jobs, NEW att \in Nat, NEW retryable \in BOOLEAN,
           FailJob(j, att, retryable), UNCHANGED countVars,
           j \in Redacted => status[j] = "running" /\ att = attempts[j]
    PROVE  (AbsentIsFresh /\ PlanExactlyOnce /\ RedactedPendingIsClaimable)'
<1>1. /\ status' = [status EXCEPT ![j] = status'[j]]
      /\ status'[j] \in {"pending", "failed"}
      /\ \A k \in Jobs \ {j} : attempts'[k] = attempts[k]
      /\ status'[j] = "pending" => attempts'[j] = attempts[j] /\ att < MaxAttempts
      /\ result' = result /\ effects' = effects
  BY FailTyped DEF countVars
<1>2. \A k \in Jobs : status'[k] = IF k = j THEN status'[j] ELSE status[k]
  BY <1>1 DEF RowsTyped
<1>3. AbsentIsFresh'
  BY <1>1, <1>2 DEF AbsentIsFresh
<1>4. PlanExactlyOnce'
  BY <1>1, <1>2 DEF PlanExactlyOnce, Redacted
<1>5. RedactedPendingIsClaimable'
  BY <1>1, <1>2 DEF RedactedPendingIsClaimable, PendingIsClaimable, Redacted
<1> QED
  BY <1>3, <1>4, <1>5

\* A worker that returns from process_job holds nothing.
LEMMA ReturnTyped ==
    ASSUME WorkersTyped, UncheckedIsPlain, FinishHasResult, NEW w \in Workers,
           NEW left \in SUBSET Jobs, Return(w, left)
    PROVE  WorkersTyped' /\ UncheckedIsPlain' /\ FinishHasResult'
<1>1. NoClaim \in Claims /\ NoClaim.job = NoJob
  BY DEF NoClaim, Claims
<1>2. WorkersTyped'
  BY <1>1 DEF WorkersTyped, Return
<1>3. UncheckedIsPlain' /\ FinishHasResult'
  BY <1>1 DEF UncheckedIsPlain, FinishHasResult, WorkersTyped, Return
<1> QED
  BY <1>2, <1>3

\* The invariant speaks of the rows and their callers, and of the workers.
RowsIInv == /\ RowsTyped /\ reopening \in [Callers -> SUBSET Jobs] /\ ReopeningIsPlain
            /\ AbsentIsFresh /\ PlanExactlyOnce /\ RedactedPendingIsClaimable
WorkersIInv == WorkersTyped /\ UncheckedIsPlain /\ FinishHasResult

LEMMA IInvParts == /\ IInv <=> RowsIInv /\ WorkersIInv
                   /\ IInv' <=> RowsIInv' /\ WorkersIInv'
BY DEF IInv, TypeOK, RowsIInv, WorkersIInv

LEMMA RowsKept ==
    ASSUME RowsIInv, UNCHANGED <<rowVars, reopening, claims, reopens>>,
           effects' \in [Jobs -> Nat], crashes' \in Nat,
           \A j \in PlanJobs : effects'[j] = effects[j]
    PROVE  RowsIInv'
<1>1. RowsTyped' /\ reopening' \in [Callers -> SUBSET Jobs] /\ ReopeningIsPlain'
  BY DEF RowsIInv, rowVars, RowsTyped, ReopeningIsPlain
<1>2. AbsentIsFresh' /\ RedactedPendingIsClaimable'
  BY DEF RowsIInv, rowVars, AbsentIsFresh, RedactedPendingIsClaimable, PendingIsClaimable
<1>3. PlanExactlyOnce'
  BY DEF RowsIInv, rowVars, PlanExactlyOnce
<1> QED
  BY <1>1, <1>2, <1>3 DEF RowsIInv

LEMMA RowsUntouched ==
    ASSUME RowsIInv, UNCHANGED <<rowVars, reopening, countVars>>
    PROVE  RowsIInv'
BY RowsKept DEF RowsIInv, RowsTyped, countVars

LEMMA WorkersUntouched ==
    ASSUME WorkersIInv, UNCHANGED workerVars
    PROVE  WorkersIInv'
BY DEF workerVars, WorkersIInv, WorkersTyped, UncheckedIsPlain, FinishHasResult

\* Every step of the queue preserves the invariant.
LEMMA NextIInv == IInv /\ [Next]_vars => IInv'
<1> SUFFICES ASSUME IInv, [Next]_vars PROVE IInv'
  OBVIOUS
<1>a. RowsIInv /\ WorkersIInv
  BY IInvParts
<1>b. RowsTyped /\ WorkersTyped /\ UncheckedIsPlain /\ FinishHasResult
  BY <1>a DEF RowsIInv, WorkersIInv
<1>1. ASSUME NEW j \in Jobs, EnqueueJob(j) PROVE IInv'
  <2>1. due' \in [Jobs -> BOOLEAN] /\ ahead' \subseteq Jobs \X Jobs
    BY <1>1, <1>b, OrderTyped DEF EnqueueJob
  <2>2. /\ UNCHANGED <<attempts, leased, expired, result, reopening, countVars>>
        /\ status[j] = "absent" /\ status' = [status EXCEPT ![j] = "pending"]
    BY <1>1 DEF EnqueueJob
  <2>3. RowsIInv'
    BY <1>a, <2>1, <2>2
    DEF RowsIInv, RowsTyped, Statuses, countVars, ReopeningIsPlain, AbsentIsFresh,
        PlanExactlyOnce, RedactedPendingIsClaimable, PendingIsClaimable, Redacted
  <2> QED
    BY <1>1, <1>a, <2>3, WorkersUntouched, IInvParts DEF EnqueueJob
<1>2. ASSUME NEW c \in Callers, NEW j \in Jobs, ReadForReopen(c, j) PROVE IInv'
  <2>1. RowsIInv'
    BY <1>2, <1>a
    DEF ReadForReopen, rowVars, countVars, RowsIInv, RowsTyped, ReopeningIsPlain,
        AbsentIsFresh, PlanExactlyOnce, RedactedPendingIsClaimable,
        PendingIsClaimable, Redacted
  <2> QED
    BY <1>2, <1>a, <2>1, WorkersUntouched, IInvParts DEF ReadForReopen
\* A re-opened row is plain, whatever happened to it since it was read.
<1>3. ASSUME NEW c \in Callers, NEW j \in Jobs, ReopenJob(c, j) PROVE IInv'
  <2>1. due' \in [Jobs -> BOOLEAN] /\ ahead' \subseteq Jobs \X Jobs
    BY <1>3, <1>b, OrderTyped DEF ReopenJob
  <2>2. j \notin Redacted
    BY <1>3, <1>a DEF ReopenJob, RowsIInv, ReopeningIsPlain
  <2>3. RowsIInv'
    BY <1>3, <1>a, <2>1, <2>2
    DEF ReopenJob, RowsIInv, RowsTyped, Statuses, ReopeningIsPlain, AbsentIsFresh,
        PlanExactlyOnce, RedactedPendingIsClaimable, PendingIsClaimable, Redacted
  <2> QED
    BY <1>3, <1>a, <2>3, WorkersUntouched, IInvParts DEF ReopenJob
<1>4. ASSUME NEW c \in Callers, AbandonReopen(c) PROVE IInv'
  <2>1. RowsIInv'
    BY <1>4, <1>a
    DEF AbandonReopen, rowVars, countVars, RowsIInv, RowsTyped, ReopeningIsPlain,
        AbsentIsFresh, PlanExactlyOnce, RedactedPendingIsClaimable, PendingIsClaimable
  <2> QED
    BY <1>4, <1>a, <2>1, WorkersUntouched, IInvParts DEF AbandonReopen
<1>5. ASSUME NEW w \in Workers, PollPending(w) PROVE IInv'
  <2>1. FirstCandidates(w) \in SUBSET Jobs
    BY BoundsAssumption DEF FirstCandidates, Candidates
  <2>2. WorkersIInv'
    BY <1>5, <1>b, <2>1
    DEF PollPending, WorkersIInv, WorkersTyped, UncheckedIsPlain, FinishHasResult
  <2> QED
    BY <1>5, <1>a, <2>2, RowsUntouched, IInvParts DEF PollPending
<1>6. ASSUME NEW w \in Workers, NEW j \in Jobs, TerminateExhausted(w, j) PROVE IInv'
  <2>1. /\ FailJob(j, attempts[j], FALSE) /\ UNCHANGED <<reopening, countVars>>
        /\ status[j] = "running" /\ Return(w, picked[w] \ {j})
    BY <1>6 DEF TerminateExhausted, Exhausted
  <2>2. attempts[j] \in Nat /\ picked[w] \ {j} \in SUBSET Jobs
    BY <1>b DEF RowsTyped, WorkersTyped
  <2>3. WorkersIInv'
    BY <1>b, <2>1, <2>2, ReturnTyped DEF WorkersIInv
  <2>4. RowsTyped' /\ AbsentIsFresh' /\ PlanExactlyOnce' /\ RedactedPendingIsClaimable'
    BY <1>a, <2>1, <2>2, FailRowsTyped, FailKeepsRows DEF RowsIInv
  <2>5. RowsIInv'
    BY <1>a, <2>1, <2>4 DEF RowsIInv, ReopeningIsPlain
  <2> QED
    BY <2>3, <2>5, IInvParts
<1>7. ASSUME NEW w \in Workers, NEW j \in Jobs, ClaimJob(w, j) PROVE IInv'
  <2>1. /\ status' = [status EXCEPT ![j] = "running"]
        /\ attempts' = [attempts EXCEPT ![j] = @ + 1]
        /\ attempts[j] < MaxAttempts /\ status[j] \in {"pending", "running"}
        /\ claims' = [claims EXCEPT ![j] = @ + 1]
        /\ leased' = [leased EXCEPT ![j] = claims[j] + 1]
        /\ expired' = [expired EXCEPT ![j] = FALSE]
        /\ UNCHANGED <<due, ahead, result, reopening, effects, reopens, crashes>>
    BY <1>7 DEF ClaimJob, Claimable
  <2>2. /\ claim' = [claim EXCEPT ![w] = [job |-> j, attempts |-> attempts[j] + 1,
                         leased |-> claims[j] + 1, result |-> "none"]]
        /\ picked' = [picked EXCEPT ![w] = @ \ {j}]
        /\ pc' = [pc EXCEPT ![w] = IF j \in PlanJobs THEN "lock" ELSE "run"]
    BY <1>7 DEF ClaimJob
  <2>3. WorkersIInv'
    <3>1. [job |-> j, attempts |-> attempts[j] + 1, leased |-> claims[j] + 1,
           result |-> "none"] \in Claims
      BY <1>b DEF RowsTyped, Claims
    <3>2. claim' \in [Workers -> Claims]
      BY <1>b, <2>2, <3>1 DEF WorkersTyped
    <3>3. \A v \in Workers \ {w} : pc'[v] = pc[v] /\ claim'[v] = claim[v]
      BY <1>b, <2>2 DEF WorkersTyped
    <3>4. claim'[w].job = j /\ pc'[w] \in {"lock", "run"}
      BY <1>b, <2>2 DEF WorkersTyped
    <3>5. \A v \in Workers : claim'[v].job = NoJob <=> pc'[v] \in {"idle", "drain"}
      BY <1>b, <3>3, <3>4, KindsAssumption DEF WorkersTyped
    <3>6. picked' \in [Workers -> SUBSET Jobs] /\
          pc' \in [Workers -> {"idle", "drain", "lock", "run", "finish",
                              "recheck", "fail", "failForGood"}]
      BY <1>b, <2>2 DEF WorkersTyped
    <3>7. UncheckedIsPlain' /\ FinishHasResult'
      BY <1>b, <3>3, <3>4 DEF UncheckedIsPlain, FinishHasResult
    <3> QED
      BY <3>2, <3>5, <3>6, <3>7 DEF WorkersIInv, WorkersTyped
  <2>4. RowsTyped'
    <3>1. attempts' \in [Jobs -> 0..MaxAttempts]
      BY <1>b, <2>1 DEF RowsTyped
    <3> QED
      BY <1>b, <2>1, <3>1 DEF RowsTyped, Statuses
  <2>5. AbsentIsFresh' /\ PlanExactlyOnce' /\ RedactedPendingIsClaimable'
    <3>1. \A k \in Jobs : status'[k] = IF k = j THEN "running" ELSE status[k]
      BY <1>b, <2>1 DEF RowsTyped
    <3>2. \A k \in Jobs \ {j} : attempts'[k] = attempts[k]
      BY <1>b, <2>1 DEF RowsTyped
    <3> QED
      BY <1>a, <2>1, <3>1, <3>2
      DEF RowsIInv, AbsentIsFresh, PlanExactlyOnce, RedactedPendingIsClaimable,
          PendingIsClaimable, Redacted
  <2>6. RowsIInv'
    BY <1>a, <2>1, <2>4, <2>5 DEF RowsIInv, ReopeningIsPlain
  <2> QED
    BY <2>3, <2>6, IInvParts
<1>8. ASSUME NEW w \in Workers, NEW j \in Jobs, SkipJob(w, j) PROVE IInv'
  <2>1. picked[w] \ {j} \in SUBSET Jobs
    BY <1>b DEF WorkersTyped
  <2>2. WorkersIInv'
    BY <1>8, <1>b, <2>1, ReturnTyped DEF SkipJob, WorkersIInv
  <2> QED
    BY <1>8, <1>a, <2>2, RowsUntouched, IInvParts DEF SkipJob
<1>9. ASSUME NEW w \in Workers, LockPlan(w) PROVE IInv'
  <2>1. ASSUME Return(w, picked[w]) PROVE WorkersIInv'
    BY <1>b, <2>1, ReturnTyped DEF WorkersIInv, WorkersTyped
  <2>2. ASSUME pc' = [pc EXCEPT ![w] = "run"], UNCHANGED <<picked, claim>>
        PROVE  WorkersIInv'
    BY <1>9, <1>b, <2>2
    DEF LockPlan, WorkersIInv, WorkersTyped, UncheckedIsPlain, FinishHasResult
  <2> QED
    BY <1>9, <1>a, <1>b, <2>1, <2>2, RowsUntouched, IInvParts DEF LockPlan
<1>10. ASSUME NEW w \in Workers, IgnoreInactiveTenant(w) PROVE IInv'
  <2>1. claim[w] \in Claims /\ [claim[w] EXCEPT !.result = "ignored"] \in Claims
    BY <1>b DEF WorkersTyped, Claims
  <2>2. WorkersIInv'
    BY <1>10, <1>b, <2>1
    DEF IgnoreInactiveTenant, WorkersIInv, WorkersTyped, UncheckedIsPlain,
        FinishHasResult, Claims
  <2> QED
    BY <1>10, <1>a, <2>2, RowsUntouched, IInvParts DEF IgnoreInactiveTenant
<1>11. ASSUME NEW w \in Workers, HandlerReturns(w) PROVE IInv'
  <2>1. claim[w] \in Claims /\ [claim[w] EXCEPT !.result = "done"] \in Claims
    BY <1>b DEF WorkersTyped, Claims
  <2>2. WorkersIInv'
    BY <1>11, <1>b, <2>1
    DEF HandlerReturns, WorkersIInv, WorkersTyped, UncheckedIsPlain,
        FinishHasResult, Claims
  <2>3. effects' \in [Jobs -> Nat]
    <3>1. /\ effects \in [Jobs -> Nat]
          /\ effects' = effects \/ effects' = [effects EXCEPT ![claim[w].job] = @ + 1]
      BY <1>11, <1>b DEF HandlerReturns, RowsTyped
    <3> QED
      BY <3>1
  <2>4. RowsIInv'
    BY <1>11, <1>a, <2>3, RowsKept DEF HandlerReturns, RowsIInv, RowsTyped
  <2> QED
    BY <2>2, <2>4, IInvParts
<1>12. ASSUME NEW w \in Workers, HandlerRaises(w) PROVE IInv'
  <2>1. /\ UNCHANGED <<picked, claim>> /\ pc[w] = "run"
        /\ \E place \in {"recheck", "fail", "failForGood"} :
              /\ pc' = [pc EXCEPT ![w] = place]
              /\ place # "recheck" => claim[w].job \notin Redacted
    BY <1>12, KindsAssumption DEF HandlerRaises, Redacted
  <2>2. WorkersIInv'
    BY <1>b, <2>1 DEF WorkersIInv, WorkersTyped, UncheckedIsPlain, FinishHasResult
  <2> QED
    BY <1>12, <1>a, <2>2, RowsUntouched, IInvParts DEF HandlerRaises
<1>13. ASSUME NEW w \in Workers, FinishJob(w) PROVE IInv'
  <2>1. WorkersIInv'
    BY <1>13, <1>b, ReturnTyped DEF FinishJob, WorkersIInv, WorkersTyped
  <2>2. PICK j \in Jobs : j = claim[w].job
    BY <1>13, <1>b DEF FinishJob, WorkersTyped, Claims
  <2>3. /\ status' = [status EXCEPT ![j] = "completed"]
        /\ result' = [result EXCEPT ![j] = claim[w].result]
        /\ leased' = [leased EXCEPT ![j] = 0]
        /\ expired' = [expired EXCEPT ![j] = FALSE]
        /\ effects' = IF j \in PlanJobs /\ claim[w].result = "done"
                      THEN [effects EXCEPT ![j] = @ + 1] ELSE effects
        /\ UNCHANGED <<attempts, reopening, claims, reopens, crashes>>
    BY <1>13, <2>2 DEF FinishJob
  <2>4. status[j] = "running" /\ claim[w].result \in {"done", "ignored"}
    BY <1>13, <1>b, <2>2 DEF FinishJob, HoldsClaim, FinishHasResult
  <2>5. due' \in [Jobs -> BOOLEAN] /\ ahead' \subseteq Jobs \X Jobs
    BY <1>13, <1>b, <2>2, OrderTyped DEF FinishJob
  <2>6. RowsTyped'
    <3>1. effects' \in [Jobs -> Nat]
      BY <1>b, <2>3 DEF RowsTyped
    <3>2. result' \in [Jobs -> {"none", "done", "ignored", "reconciled"}]
      BY <1>b, <2>3, <2>4 DEF RowsTyped
    <3> QED
      BY <1>b, <2>3, <2>5, <3>1, <3>2 DEF RowsTyped, Statuses
  <2>7. PlanExactlyOnce'
    BY <1>a, <2>3, <2>4 DEF RowsIInv, RowsTyped, PlanExactlyOnce, Redacted
  <2>8. AbsentIsFresh' /\ RedactedPendingIsClaimable' /\ ReopeningIsPlain'
    BY <1>a, <2>3, <2>4
    DEF RowsIInv, RowsTyped, AbsentIsFresh, RedactedPendingIsClaimable,
        PendingIsClaimable, ReopeningIsPlain, Redacted
  <2>9. RowsIInv'
    BY <1>a, <2>3, <2>6, <2>7, <2>8 DEF RowsIInv
  <2> QED
    BY <2>1, <2>9, IInvParts
<1>14. ASSUME NEW w \in Workers, DiscardResult(w) PROVE IInv'
  <2>1. WorkersIInv'
    BY <1>14, <1>b, ReturnTyped DEF DiscardResult, WorkersIInv, WorkersTyped
  <2> QED
    BY <1>14, <1>a, <2>1, RowsUntouched, IInvParts DEF DiscardResult
<1>15. ASSUME NEW w \in Workers, FailChecked(w) PROVE IInv'
  <2>1. WorkersIInv' /\ UNCHANGED <<reopening, countVars>>
    BY <1>15, <1>b, ReturnTyped DEF FailChecked, WorkersIInv, WorkersTyped
  <2>2. claim[w].job \in Jobs /\ attempts[claim[w].job] \in Nat
    BY <1>15, <1>b DEF FailChecked, RowsTyped, WorkersTyped, Claims
  <2>3. CASE HoldsClaim(w) /\ FailJob(claim[w].job, attempts[claim[w].job], TRUE)
    <3>1. status[claim[w].job] = "running"
      BY <2>3 DEF HoldsClaim
    <3>2. RowsTyped' /\ AbsentIsFresh' /\ PlanExactlyOnce' /\ RedactedPendingIsClaimable'
      BY <1>a, <2>1, <2>2, <2>3, <3>1, FailRowsTyped, FailKeepsRows DEF RowsIInv
    <3>3. RowsIInv'
      BY <1>a, <2>1, <3>2 DEF RowsIInv, ReopeningIsPlain
    <3> QED
      BY <2>1, <3>3, IInvParts
  <2>4. CASE UNCHANGED rowVars
    BY <1>a, <2>1, <2>4, RowsUntouched, IInvParts
  <2> QED
    BY <1>15, <2>3, <2>4 DEF FailChecked
<1>16. ASSUME NEW w \in Workers, FailUnchecked(w) PROVE IInv'
  <2>1. WorkersIInv' /\ UNCHANGED <<reopening, countVars>>
    BY <1>16, <1>b, ReturnTyped DEF FailUnchecked, WorkersIInv, WorkersTyped
  <2>2. PICK att \in {claim[w].attempts, attempts[claim[w].job]} :
          FailJob(claim[w].job, att, pc[w] = "fail")
    BY <1>16 DEF FailUnchecked
  <2>3. claim[w].job \in Jobs \ Redacted /\ att \in Nat
    <3>1. claim[w] \in Claims /\ claim[w].job # NoJob
      BY <1>16, <1>b DEF FailUnchecked, WorkersTyped
    <3>2. claim[w].job \in Jobs \ Redacted /\ claim[w].attempts \in Nat
      BY <1>16, <1>b, <3>1 DEF FailUnchecked, Claims, UncheckedIsPlain
    <3>3. attempts[claim[w].job] \in Nat
      BY <1>b, <3>2 DEF RowsTyped
    <3> QED
      BY <2>2, <3>2, <3>3
  <2>4. RowsTyped' /\ AbsentIsFresh' /\ PlanExactlyOnce' /\ RedactedPendingIsClaimable'
    BY <1>a, <2>1, <2>2, <2>3, FailRowsTyped, FailKeepsRows DEF RowsIInv
  <2>5. RowsIInv'
    BY <1>a, <2>1, <2>4 DEF RowsIInv, ReopeningIsPlain
  <2> QED
    BY <2>1, <2>5, IInvParts
<1>17. ASSUME NEW w \in Workers, Crash(w) PROVE IInv'
  <2>1. WorkersIInv'
    BY <1>17, <1>b, ReturnTyped DEF Crash, WorkersIInv
  <2>2. RowsIInv'
    BY <1>17, <1>a, RowsKept DEF Crash, RowsIInv, RowsTyped
  <2> QED
    BY <2>1, <2>2, IInvParts
<1>18. ASSUME NEW j \in Jobs, ReconcileCallJob(j) PROVE IInv'
  <2>1. RowsIInv'
    BY <1>18, <1>a
    DEF ReconcileCallJob, RowsIInv, RowsTyped, Statuses, countVars, ReopeningIsPlain,
        AbsentIsFresh, PlanExactlyOnce, RedactedPendingIsClaimable,
        PendingIsClaimable, Redacted
  <2> QED
    BY <1>18, <1>a, <2>1, WorkersUntouched, IInvParts DEF ReconcileCallJob
<1>19. ASSUME NEW j \in Jobs, LeaseExpires(j) \/ BackoffElapses(j) PROVE IInv'
  <2>1. /\ expired' \in [Jobs -> BOOLEAN] /\ due' \in [Jobs -> BOOLEAN]
        /\ UNCHANGED <<status, attempts, leased, ahead, result, reopening, countVars>>
    BY <1>19, <1>b DEF LeaseExpires, BackoffElapses, RowsTyped
  <2>2. RowsIInv'
    BY <1>a, <2>1
    DEF RowsIInv, RowsTyped, countVars, ReopeningIsPlain, AbsentIsFresh,
        PlanExactlyOnce, RedactedPendingIsClaimable, PendingIsClaimable
  <2> QED
    BY <1>19, <1>a, <2>2, WorkersUntouched, IInvParts DEF LeaseExpires, BackoffElapses
<1>20. CASE UNCHANGED vars
  BY <1>20, <1>a, RowsUntouched, WorkersUntouched, IInvParts DEF vars
<1> QED
  BY <1>1, <1>2, <1>3, <1>4, <1>5, <1>6, <1>7, <1>8, <1>9, <1>10, <1>11, <1>12,
     <1>13, <1>14, <1>15, <1>16, <1>17, <1>18, <1>19, <1>20
  DEF Next, WorkerStep, CallerStep

LEMMA Invariance == Spec => []IInv
BY InitIInv, NextIInv, PTL DEF Spec

------------------------------------------------------------------------------
(***************************************************************************)
(* The theorems.                                                           *)
(***************************************************************************)

\* Every reachable row, worker and caller is well typed.
THEOREM TypeCorrect == Spec => []TypeOK
<1>1. IInv => TypeOK
  BY DEF IInv
<1> QED
  BY Invariance, <1>1, PTL

\* A plan is committed exactly when its row is completed by it, once.
THEOREM PlanCommittedOnce == Spec => []PlanExactlyOnce
<1>1. IInv => PlanExactlyOnce
  BY DEF IInv
<1> QED
  BY Invariance, <1>1, PTL

\* No pending row of a redacted kind is out of attempts.
THEOREM RedactedNeverStranded == Spec => []RedactedPendingIsClaimable
<1>1. IInv => RedactedPendingIsClaimable
  BY DEF IInv
<1> QED
  BY Invariance, <1>1, PTL

\* Only a step of the holder, or the end of the lease, changes the lease of a
\* running row of a redacted kind.
LEMMA LeaseStep ==
    ASSUME IInv, [Next]_vars, NEW k \in Redacted
    PROVE  LeaseEndedByHolder(k)
<1> SUFFICES ASSUME status[k] = "running", ~expired[k],
                    status'[k] # "running" \/ leased'[k] # leased[k]
             PROVE  \E w \in Workers : /\ claim[w].job = k /\ HoldsClaim(w)
                                       /\ claim'[w] = NoClaim
  BY DEF LeaseEndedByHolder
<1>a. /\ k \in Jobs /\ k \notin ReopenFailed \cup ReopenCompleted
      /\ k \notin VoiceJobs
  BY DEF Redacted
<1>b. RowsTyped /\ WorkersTyped /\ UncheckedIsPlain /\ ReopeningIsPlain
  BY DEF IInv, TypeOK
<1>1. ASSUME NEW j \in Jobs, EnqueueJob(j) PROVE FALSE
  BY <1>1, <1>a, <1>b DEF EnqueueJob, RowsTyped
<1>2. ASSUME NEW c \in Callers, NEW j \in Jobs, ReopenJob(c, j) PROVE FALSE
  BY <1>2, <1>a, <1>b DEF ReopenJob, RowsTyped, ReopeningIsPlain
<1>3. ASSUME NEW w \in Workers, NEW j \in Jobs, TerminateExhausted(w, j) PROVE FALSE
  BY <1>3, <1>a, <1>b DEF TerminateExhausted, Exhausted, FailJob, RowsTyped
<1>4. ASSUME NEW w \in Workers, NEW j \in Jobs, ClaimJob(w, j) PROVE FALSE
  BY <1>4, <1>a, <1>b DEF ClaimJob, Claimable, RowsTyped
<1>5. ASSUME NEW w \in Workers, FinishJob(w)
      PROVE  claim[w].job = k /\ HoldsClaim(w) /\ claim'[w] = NoClaim
  BY <1>5, <1>a, <1>b DEF FinishJob, Return, RowsTyped, WorkersTyped
<1>6. ASSUME NEW w \in Workers, FailChecked(w)
      PROVE  claim[w].job = k /\ HoldsClaim(w) /\ claim'[w] = NoClaim
  <2>1. HoldsClaim(w) /\ FailJob(claim[w].job, attempts[claim[w].job], TRUE)
    BY <1>6, <1>a DEF FailChecked, rowVars
  <2>2. claim'[w] = NoClaim
    BY <1>6, <1>b DEF FailChecked, Return, WorkersTyped
  <2>3. claim[w].job = k
    BY <2>1, <1>a, <1>b DEF FailJob, RowsTyped
  <2> QED
    BY <2>1, <2>2, <2>3
<1>7. ASSUME NEW w \in Workers, FailUnchecked(w) PROVE FALSE
  <2>1. PICK att \in {claim[w].attempts, attempts[claim[w].job]} :
          FailJob(claim[w].job, att, pc[w] = "fail")
    BY <1>7 DEF FailUnchecked
  <2>2. claim[w].job # k
    BY <1>7, <1>b DEF FailUnchecked, UncheckedIsPlain
  <2> QED
    BY <2>1, <2>2, <1>a, <1>b DEF FailJob, RowsTyped
<1>8. ASSUME NEW j \in Jobs, ReconcileCallJob(j) PROVE FALSE
  BY <1>8, <1>a, <1>b DEF ReconcileCallJob, RowsTyped
<1>9. ASSUME UNCHANGED <<status, leased>> PROVE FALSE
  BY <1>9
<1> QED
  BY <1>1, <1>2, <1>3, <1>4, <1>5, <1>6, <1>7, <1>8, <1>9
  DEF Next, WorkerStep, CallerStep, vars, rowVars, workerVars, ReadForReopen,
      AbandonReopen, PollPending, SkipJob, LockPlan, IgnoreInactiveTenant,
      HandlerReturns, HandlerRaises, DiscardResult, Crash, LeaseExpires,
      BackoffElapses

\* However many schedulers drain the queue, the live lease of a redacted kind is
\* ended by its holder alone.
THEOREM RedactedLeaseIsHeld == Spec => RedactedLeaseHeld
<1>1. IInv /\ [Next]_vars => [\A j \in Redacted : LeaseEndedByHolder(j)]_vars
  BY LeaseStep
<1> QED
  BY Invariance, <1>1, PTL DEF Spec, RedactedLeaseHeld

------------------------------------------------------------------------------
(***************************************************************************)
(* The queue implements PlanningContract.                                  *)
(***************************************************************************)

outcomeBar == [j \in PlanJobs |-> PlanOutcome(j)]
planBar == [j \in PlanJobs |-> effects[j]]
ContractStep == [Contract!Next]_<<outcomeBar, planBar>>

\* A step that changes one row is a contract step when it decides an open plan
\* the way the contract says, or shows the outside nothing.
LEMMA OneRowStep ==
    ASSUME NEW j \in Jobs,
           \A k \in PlanJobs \ {j} : /\ status'[k] = status[k] /\ result'[k] = result[k]
                                    /\ effects'[k] = effects[k],
           j \in PlanJobs =>
              \/ PlanOutcome(j)' = PlanOutcome(j) /\ effects'[j] = effects[j]
              \/ /\ PlanOutcome(j) = "none" /\ PlanOutcome(j)' = "open"
                 /\ effects'[j] = effects[j]
              \/ /\ PlanOutcome(j) = "open" /\ PlanOutcome(j)' = "done"
                 /\ effects'[j] = effects[j] + 1
              \/ /\ PlanOutcome(j) = "open" /\ PlanOutcome(j)' \in {"ignored", "failed"}
                 /\ effects'[j] = effects[j]
    PROVE  ContractStep
<1>1. \A k \in PlanJobs \ {j} :
         outcomeBar'[k] = outcomeBar[k] /\ planBar'[k] = planBar[k]
  <2>1. \A k \in PlanJobs \ {j} : PlanOutcome(k)' = PlanOutcome(k)
    BY DEF PlanOutcome
  <2> QED
    BY <2>1 DEF outcomeBar, planBar
<1>2. \A k \in PlanJobs : /\ outcomeBar[k] = PlanOutcome(k) /\ planBar[k] = effects[k]
                          /\ outcomeBar'[k] = PlanOutcome(k)' /\ planBar'[k] = effects'[k]
  BY DEF outcomeBar, planBar
<1>3. CASE j \notin PlanJobs
  BY <1>1, <1>3 DEF ContractStep, outcomeBar, planBar
<1>4. CASE j \in PlanJobs
  <2>1. /\ outcomeBar' = [outcomeBar EXCEPT ![j] = PlanOutcome(j)']
        /\ planBar' = [planBar EXCEPT ![j] = effects'[j]]
    <3>1. \A k \in PlanJobs \ {j} : effects'[k] = effects[k]
      OBVIOUS
    <3>2. planBar' = [planBar EXCEPT ![j] = effects'[j]]
      BY <1>4, <3>1 DEF planBar
    <3>3. outcomeBar' = [outcomeBar EXCEPT ![j] = PlanOutcome(j)']
      BY <1>1, <1>2, <1>4 DEF outcomeBar
    <3> QED
      BY <3>2, <3>3
  <2>2. CASE PlanOutcome(j)' = PlanOutcome(j) /\ effects'[j] = effects[j]
    BY <1>2, <1>4, <2>1, <2>2 DEF ContractStep, outcomeBar, planBar
  <2>3. CASE /\ PlanOutcome(j) = "none" /\ PlanOutcome(j)' = "open"
             /\ effects'[j] = effects[j]
    <3>1. planBar' = planBar
      BY <1>2, <1>4, <2>1, <2>3 DEF planBar
    <3>2. Contract!Enqueue(j)
      BY <1>2, <1>4, <2>1, <2>3, <3>1 DEF Contract!Enqueue, outcomeBar, planBar
    <3> QED
      BY <1>4, <3>2 DEF ContractStep, Contract!Next
  <2>4. CASE /\ PlanOutcome(j) = "open" /\ PlanOutcome(j)' = "done"
             /\ effects'[j] = effects[j] + 1
    <3>1. Contract!Commit(j)
      BY <1>2, <1>4, <2>1, <2>4 DEF Contract!Commit, outcomeBar, planBar
    <3> QED
      BY <1>4, <3>1 DEF ContractStep, Contract!Next, Contract!Decide
  <2>5. CASE /\ PlanOutcome(j) = "open" /\ PlanOutcome(j)' \in {"ignored", "failed"}
             /\ effects'[j] = effects[j]
    <3>1. planBar' = planBar
      BY <1>2, <1>4, <2>1, <2>5 DEF planBar
    <3>2. Contract!Close(j, "ignored") \/ Contract!Close(j, "failed")
      BY <1>2, <1>4, <2>1, <2>5, <3>1 DEF Contract!Close, outcomeBar, planBar
    <3> QED
      BY <1>4, <3>2 DEF ContractStep, Contract!Next, Contract!Decide
  <2> QED
    BY <1>4, <2>2, <2>3, <2>4, <2>5
<1> QED
  BY <1>3, <1>4

LEMMA ContractInit == Init => Contract!Init
BY DEF Init, Contract!Init, PlanOutcome

\* A row that was open when a worker failed it is open or failed afterwards.
LEMMA FailStep ==
    ASSUME RowsTyped, NEW j \in Jobs, NEW att \in Nat, NEW retryable \in BOOLEAN,
           FailJob(j, att, retryable), effects' = effects,
           j \in PlanJobs => status[j] = "running"
    PROVE  ContractStep
<1>1. /\ status' = [status EXCEPT ![j] = status'[j]]
      /\ status'[j] \in {"pending", "failed"} /\ result' = result
  BY FailTyped
<1>2. \A k \in PlanJobs \ {j} : status'[k] = status[k]
  BY <1>1 DEF RowsTyped
<1>3. j \in PlanJobs => PlanOutcome(j) = "open" /\ PlanOutcome(j)' \in {"open", "failed"}
  BY <1>1 DEF PlanOutcome
<1> QED
  BY <1>1, <1>2, <1>3, OneRowStep

LEMMA NextContractStep == IInv /\ [Next]_vars => ContractStep
<1> SUFFICES ASSUME IInv, [Next]_vars PROVE ContractStep
  OBVIOUS
<1>a. RowsTyped /\ WorkersTyped /\ UncheckedIsPlain /\ ReopeningIsPlain /\ FinishHasResult
  BY DEF IInv, TypeOK
<1>b. \A w \in Workers : pc[w] \notin {"idle", "drain"} => claim[w].job \in Jobs
  BY <1>a DEF WorkersTyped, Claims
<1>1. ASSUME NEW j \in Jobs, EnqueueJob(j) PROVE ContractStep
  BY <1>1, <1>a, OneRowStep DEF EnqueueJob, RowsTyped, PlanOutcome, countVars
<1>2. ASSUME NEW c \in Callers, NEW j \in Jobs, ReopenJob(c, j) PROVE ContractStep
  <2>1. j \notin PlanJobs
    BY <1>2, <1>a DEF ReopenJob, ReopeningIsPlain, Redacted
  <2> QED
    BY <1>2, <1>a, <2>1, OneRowStep DEF ReopenJob, RowsTyped
<1>3. ASSUME NEW w \in Workers, NEW j \in Jobs, TerminateExhausted(w, j)
      PROVE  ContractStep
  <2>1. FailJob(j, attempts[j], FALSE) /\ status[j] = "running" /\ effects' = effects
    BY <1>3 DEF TerminateExhausted, Exhausted, countVars
  <2>2. attempts[j] \in Nat
    BY <1>a DEF RowsTyped
  <2> QED
    BY <1>a, <2>1, <2>2, FailStep
<1>4. ASSUME NEW w \in Workers, NEW j \in Jobs, ClaimJob(w, j) PROVE ContractStep
  BY <1>4, <1>a, OneRowStep DEF ClaimJob, Claimable, RowsTyped, PlanOutcome
<1>5. ASSUME NEW w \in Workers, HandlerReturns(w) PROVE ContractStep
  BY <1>5, <1>a, <1>b, OneRowStep DEF HandlerReturns, RowsTyped, rowVars, PlanOutcome
<1>6. ASSUME NEW w \in Workers, FinishJob(w) PROVE ContractStep
  <2>1. PICK j \in Jobs : j = claim[w].job
    BY <1>6, <1>b DEF FinishJob
  <2>2. /\ status[j] = "running"
        /\ status' = [status EXCEPT ![j] = "completed"]
        /\ result' = [result EXCEPT ![j] = claim[w].result]
        /\ effects' = IF j \in PlanJobs /\ claim[w].result = "done"
                      THEN [effects EXCEPT ![j] = @ + 1] ELSE effects
    BY <1>6, <2>1 DEF FinishJob, HoldsClaim
  <2>3. claim[w].result \in {"done", "ignored"}
    BY <1>6, <1>a DEF FinishJob, FinishHasResult
  <2> QED
    BY <1>a, <2>2, <2>3, OneRowStep DEF RowsTyped, PlanOutcome
<1>7. ASSUME NEW w \in Workers, FailChecked(w) PROVE ContractStep
  <2>1. claim[w].job \in Jobs /\ effects' = effects
    BY <1>7, <1>b DEF FailChecked, countVars
  <2>2. CASE HoldsClaim(w) /\ FailJob(claim[w].job, attempts[claim[w].job], TRUE)
    <3>1. attempts[claim[w].job] \in Nat /\ status[claim[w].job] = "running"
      BY <1>a, <2>1, <2>2 DEF RowsTyped, HoldsClaim
    <3> QED
      BY <1>a, <2>1, <2>2, <3>1, FailStep
  <2>3. CASE UNCHANGED rowVars
    BY <2>1, <2>3, OneRowStep DEF rowVars, PlanOutcome
  <2> QED
    BY <1>7, <2>2, <2>3 DEF FailChecked
<1>8. ASSUME NEW w \in Workers, FailUnchecked(w) PROVE ContractStep
  <2>1. PICK att \in {claim[w].attempts, attempts[claim[w].job]} :
          FailJob(claim[w].job, att, pc[w] = "fail")
    BY <1>8 DEF FailUnchecked
  <2>2. claim[w].job \in Jobs \ PlanJobs /\ effects' = effects
    BY <1>8, <1>a, <1>b DEF FailUnchecked, UncheckedIsPlain, Redacted, countVars
  <2>3. att \in Nat
    BY <1>a, <2>2 DEF WorkersTyped, Claims, RowsTyped
  <2> QED
    BY <1>a, <2>1, <2>2, <2>3, FailStep
<1>9. ASSUME NEW j \in Jobs, ReconcileCallJob(j) PROVE ContractStep
  <2>1. j \notin PlanJobs
    BY <1>9 DEF ReconcileCallJob
  <2> QED
    BY <1>9, <1>a, <2>1, OneRowStep DEF ReconcileCallJob, RowsTyped, countVars
<1>10. ASSUME UNCHANGED <<status, result, effects>> PROVE ContractStep
  BY <1>10 DEF ContractStep, outcomeBar, planBar, PlanOutcome
<1> QED
  BY <1>1, <1>2, <1>3, <1>4, <1>5, <1>6, <1>7, <1>8, <1>9, <1>10
  DEF Next, WorkerStep, CallerStep, vars, rowVars, workerVars, countVars,
      ReadForReopen, AbandonReopen, PollPending, SkipJob, LockPlan,
      IgnoreInactiveTenant, HandlerRaises, DiscardResult, Crash, LeaseExpires,
      BackoffElapses

\* Two or two hundred schedulers, crashing at any point: what the planning kinds'
\* enqueuers see is the contract, an open plan decided once and for good.
THEOREM QueueKeepsContract == Spec => ContractKept
<1>1. ContractStep => [Contract!Next]_<<outcomeBar, planBar>>
  BY DEF ContractStep
<1> QED
  BY ContractInit, Invariance, NextContractStep, PTL
  DEF Spec, ContractKept, Contract!Spec, ContractStep, outcomeBar, planBar

------------------------------------------------------------------------------
(***************************************************************************)
(* A re-opened row is not completed by an old run.                         *)
(***************************************************************************)

\* A claim a worker remembers was counted when it was made.
ClaimsAreCounted ==
    \A w \in Workers : claim[w].job \in Jobs => claim[w].leased <= claims[claim[w].job]

\* A worker that still holds its claim and is about to complete the row has
\* left its handler's effect there: a re-open would have taken the claim away.
HolderHasEffect ==
    \A w \in Workers :
        /\ pc[w] = "finish" /\ claim[w].result = "done"
        /\ claim[w].job \in Jobs \ PlanJobs /\ HoldsClaim(w)
        => effects[claim[w].job] >= 1

ReopenIInv == IInv /\ ClaimsAreCounted /\ HolderHasEffect /\ CompletedMeansRun

\* A step that runs no handler, completes no row with "done" and starts no
\* lease keeps the three facts.
LEMMA QuietStep ==
    ASSUME ReopenIInv, IInv', effects' = effects, claims' = claims,
           \A j \in Jobs : status'[j] = "running" =>
              status[j] = "running" /\ leased'[j] = leased[j] /\ attempts'[j] = attempts[j],
           \A j \in Jobs : status'[j] = "completed" /\ result'[j] = "done" =>
              status[j] = "completed" /\ result[j] = "done",
           \A w \in Workers :
              \/ claim'[w] = claim[w] /\ pc'[w] \in {pc[w]} \cup {"run", "recheck", "fail",
                                                        "failForGood", "drain"}
              \/ claim'[w] = NoClaim
              \/ claim'[w] = [claim[w] EXCEPT !.result = "ignored"]
    PROVE  ReopenIInv'
<1>1. NoClaim.job \notin Jobs
  BY DEF NoClaim
<1>2. \A w \in Workers :
         LET ignored == [claim[w] EXCEPT !.result = "ignored"] IN
         /\ ignored.job = claim[w].job /\ ignored.leased = claim[w].leased
         /\ ignored.result = "ignored"
  <2>1. \A c \in Claims : LET ignored == [c EXCEPT !.result = "ignored"] IN
           /\ ignored.job = c.job /\ ignored.leased = c.leased
           /\ ignored.result = "ignored"
    BY DEF Claims
  <2> QED
    BY <2>1 DEF ReopenIInv, IInv, TypeOK, WorkersTyped
<1>3. \A w \in Workers : claim'[w].job \in Jobs =>
         claim'[w].job = claim[w].job /\ claim'[w].leased = claim[w].leased
  BY <1>1, <1>2
<1>4. ClaimsAreCounted'
  BY <1>3 DEF ReopenIInv, ClaimsAreCounted
<1>5. HolderHasEffect'
  <2> SUFFICES ASSUME NEW w \in Workers, pc'[w] = "finish", claim'[w].result = "done",
                      claim'[w].job \in Jobs \ PlanJobs, HoldsClaim(w)'
               PROVE  effects'[claim'[w].job] >= 1
    BY DEF HolderHasEffect
  <2>1. claim'[w] = claim[w] /\ pc[w] = "finish"
    BY <1>1, <1>2
  <2>2. HoldsClaim(w)
    BY <2>1 DEF HoldsClaim
  <2> QED
    BY <2>1, <2>2 DEF ReopenIInv, HolderHasEffect
<1>6. CompletedMeansRun'
  BY DEF ReopenIInv, CompletedMeansRun
<1> QED
  BY <1>4, <1>5, <1>6 DEF ReopenIInv

\* What a worker leaves behind when process_job returns.
LEMMA ReturnClears ==
    ASSUME WorkersTyped, NEW w \in Workers, NEW left, Return(w, left)
    PROVE  \A v \in Workers : \/ claim'[v] = claim[v] /\ pc'[v] = pc[v]
                              \/ claim'[v] = NoClaim
BY DEF Return, WorkersTyped

\* What fail_job does to the rows.
LEMMA FailIsQuiet ==
    ASSUME RowsTyped, NEW j \in Jobs, NEW att \in Nat, NEW retryable \in BOOLEAN,
           FailJob(j, att, retryable)
    PROVE  /\ \A k \in Jobs : status'[k] = "running" =>
                 status[k] = "running" /\ leased'[k] = leased[k] /\ attempts'[k] = attempts[k]
           /\ \A k \in Jobs : status'[k] = "completed" /\ result'[k] = "done" =>
                 status[k] = "completed" /\ result[k] = "done"
<1>1. /\ status' = [status EXCEPT ![j] = status'[j]]
      /\ status'[j] \in {"pending", "failed"}
      /\ \A k \in Jobs \ {j} : attempts'[k] = attempts[k]
      /\ leased' = [leased EXCEPT ![j] = 0] /\ result' = result
  BY FailTyped
<1> QED
  BY <1>1 DEF RowsTyped

LEMMA NextReopenIInv == ReopenIInv /\ [Next]_vars => ReopenIInv'
<1> SUFFICES ASSUME ReopenIInv, [Next]_vars PROVE ReopenIInv'
  OBVIOUS
<1>a. IInv /\ IInv'
  BY NextIInv DEF ReopenIInv
<1>b. RowsTyped /\ WorkersTyped /\ ReopeningIsPlain /\ FinishHasResult
  BY <1>a DEF IInv, TypeOK
<1>c. \A w \in Workers : pc[w] \notin {"idle", "drain"} => claim[w].job \in Jobs
  BY <1>b DEF WorkersTyped, Claims
<1>1. ASSUME NEW j \in Jobs, EnqueueJob(j) PROVE ReopenIInv'
  BY <1>1, <1>a, <1>b, QuietStep DEF EnqueueJob, workerVars, countVars, RowsTyped
<1>2. ASSUME NEW c \in Callers, NEW j \in Jobs, ReopenJob(c, j) PROVE ReopenIInv'
  <2>1. /\ status' = [status EXCEPT ![j] = "pending"]
        /\ result' = [result EXCEPT ![j] = "none"]
        /\ effects' = [effects EXCEPT ![j] = 0]
        /\ UNCHANGED <<leased, pc, claim, claims>>
        /\ \A k \in Jobs \ {j} : attempts'[k] = attempts[k]
    BY <1>2, <1>b DEF ReopenJob, workerVars, RowsTyped
  <2>2. ClaimsAreCounted'
    BY <2>1 DEF ReopenIInv, ClaimsAreCounted
  <2>3. HolderHasEffect'
    <3> SUFFICES ASSUME NEW w \in Workers, pc[w] = "finish", claim[w].result = "done",
                        claim[w].job \in Jobs \ PlanJobs, HoldsClaim(w)'
                 PROVE  effects'[claim[w].job] >= 1
      BY <2>1 DEF HolderHasEffect
    <3>1. claim[w].job # j
      BY <1>b, <2>1 DEF HoldsClaim, RowsTyped
    <3>2. HoldsClaim(w) /\ effects'[claim[w].job] = effects[claim[w].job]
      BY <1>b, <2>1, <3>1 DEF HoldsClaim, RowsTyped
    <3> QED
      BY <3>2 DEF ReopenIInv, HolderHasEffect
  <2>4. CompletedMeansRun'
    BY <1>b, <2>1 DEF ReopenIInv, CompletedMeansRun, RowsTyped
  <2> QED
    BY <1>a, <2>2, <2>3, <2>4 DEF ReopenIInv
\* A new claim has a number no remembered claim of the row has.
<1>3. ASSUME NEW w \in Workers, NEW j \in Jobs, ClaimJob(w, j) PROVE ReopenIInv'
  <2>1. /\ status' = [status EXCEPT ![j] = "running"]
        /\ attempts' = [attempts EXCEPT ![j] = @ + 1]
        /\ claims' = [claims EXCEPT ![j] = @ + 1]
        /\ leased' = [leased EXCEPT ![j] = claims[j] + 1]
        /\ claim' = [claim EXCEPT ![w] = [job |-> j, attempts |-> attempts[j] + 1,
                         leased |-> claims[j] + 1, result |-> "none"]]
        /\ pc' = [pc EXCEPT ![w] = IF j \in PlanJobs THEN "lock" ELSE "run"]
        /\ UNCHANGED <<result, effects>>
    BY <1>3 DEF ClaimJob
  <2>2. claims \in [Jobs -> Nat] /\ \A v \in Workers : claim[v].leased \in Nat
    BY <1>b DEF RowsTyped, WorkersTyped, Claims
  <2>3. ClaimsAreCounted'
    <3> SUFFICES ASSUME NEW v \in Workers, claim'[v].job \in Jobs
                 PROVE  claim'[v].leased <= claims'[claim'[v].job]
      BY DEF ClaimsAreCounted
    <3>1. CASE v = w
      BY <1>b, <2>1, <2>2, <3>1 DEF WorkersTyped
    <3>2. CASE v # w
      <4>1. claim'[v] = claim[v] /\ claim[v].leased <= claims[claim[v].job]
        BY <1>b, <2>1, <3>2 DEF WorkersTyped, ReopenIInv, ClaimsAreCounted
      <4>2. claims[claim[v].job] <= claims'[claim[v].job]
        BY <2>1, <2>2, <4>1
      <4> QED
        BY <2>1, <2>2, <4>1, <4>2
    <3> QED
      BY <3>1, <3>2
  <2>4. HolderHasEffect'
    <3> SUFFICES ASSUME NEW v \in Workers, pc'[v] = "finish", claim'[v].result = "done",
                        claim'[v].job \in Jobs \ PlanJobs, HoldsClaim(v)'
                 PROVE  effects'[claim'[v].job] >= 1
      BY DEF HolderHasEffect
    <3>1. v # w /\ claim'[v] = claim[v] /\ pc[v] = "finish"
      BY <1>b, <2>1 DEF WorkersTyped
    <3>2. claim[v].job # j
      <4> SUFFICES ASSUME claim[v].job = j PROVE FALSE
        OBVIOUS
      <4>1. claim[v].leased <= claims[j]
        BY DEF ReopenIInv, ClaimsAreCounted
      <4>2. leased'[j] = claims[j] + 1
        BY <1>b, <2>1 DEF RowsTyped
      <4>3. leased'[j] = claim[v].leased
        BY <3>1 DEF HoldsClaim
      <4> QED
        BY <2>2, <4>1, <4>2, <4>3
    <3>3. HoldsClaim(v)
      BY <1>b, <2>1, <3>1, <3>2 DEF HoldsClaim, RowsTyped
    <3> QED
      BY <2>1, <3>1, <3>3 DEF ReopenIInv, HolderHasEffect
  <2>5. CompletedMeansRun'
    BY <1>b, <2>1 DEF ReopenIInv, CompletedMeansRun, RowsTyped
  <2> QED
    BY <1>a, <2>3, <2>4, <2>5 DEF ReopenIInv
<1>4. ASSUME NEW w \in Workers, HandlerReturns(w) PROVE ReopenIInv'
  <2>1. PICK j \in Jobs : j = claim[w].job
    BY <1>4, <1>c DEF HandlerReturns
  <2>2. /\ pc' = [pc EXCEPT ![w] = "finish"]
        /\ claim' = [claim EXCEPT ![w].result = "done"]
        /\ effects' = IF j \in PlanJobs THEN effects ELSE [effects EXCEPT ![j] = @ + 1]
        /\ UNCHANGED <<status, attempts, leased, result, claims>>
    BY <1>4, <2>1 DEF HandlerReturns, rowVars
  <2>3. \A v \in Workers : /\ claim'[v].job = claim[v].job
                           /\ claim'[v].leased = claim[v].leased
                           /\ claim'[v].attempts = claim[v].attempts
                           /\ v # w => claim'[v] = claim[v] /\ pc'[v] = pc[v]
    BY <1>b, <2>2 DEF WorkersTyped, Claims
  <2>4. /\ \A k \in Jobs : effects'[k] >= effects[k]
        /\ j \notin PlanJobs => effects'[j] >= 1
        /\ effects \in [Jobs -> Nat] /\ effects' \in [Jobs -> Nat]
    BY <1>a, <1>b, <2>2 DEF IInv, TypeOK, RowsTyped
  <2>5. ClaimsAreCounted'
    BY <2>2, <2>3 DEF ReopenIInv, ClaimsAreCounted
  <2>6. HolderHasEffect'
    <3> SUFFICES ASSUME NEW v \in Workers, pc'[v] = "finish", claim'[v].result = "done",
                        claim[v].job \in Jobs \ PlanJobs, HoldsClaim(v)'
                 PROVE  effects'[claim[v].job] >= 1
      BY <2>3 DEF HolderHasEffect
    <3>1. CASE v = w
      BY <2>1, <2>4, <3>1
    <3>2. CASE v # w
      <4>1. HoldsClaim(v)
        BY <2>2, <2>3 DEF HoldsClaim
      <4>2. effects[claim[v].job] >= 1
        BY <2>3, <3>2, <4>1 DEF ReopenIInv, HolderHasEffect
      <4> QED
        BY <2>4, <4>2
    <3> QED
      BY <3>1, <3>2
  <2>7. CompletedMeansRun'
    BY <2>2, <2>4 DEF ReopenIInv, CompletedMeansRun
  <2> QED
    BY <1>a, <2>5, <2>6, <2>7 DEF ReopenIInv
<1>5. ASSUME NEW w \in Workers, FinishJob(w) PROVE ReopenIInv'
  <2>1. PICK j \in Jobs : j = claim[w].job
    BY <1>5, <1>c DEF FinishJob
  <2>2. /\ status' = [status EXCEPT ![j] = "completed"]
        /\ result' = [result EXCEPT ![j] = claim[w].result]
        /\ leased' = [leased EXCEPT ![j] = 0]
        /\ effects' = IF j \in PlanJobs /\ claim[w].result = "done"
                      THEN [effects EXCEPT ![j] = @ + 1] ELSE effects
        /\ UNCHANGED <<attempts, claims>> /\ Return(w, picked[w])
        /\ HoldsClaim(w) /\ pc[w] = "finish"
    BY <1>5, <2>1 DEF FinishJob
  <2>3. \A v \in Workers : \/ v # w /\ claim'[v] = claim[v] /\ pc'[v] = pc[v]
                           \/ claim'[v].job \notin Jobs
    BY <1>b, <2>2 DEF Return, WorkersTyped, NoClaim
  <2>4. ClaimsAreCounted'
    BY <2>2, <2>3 DEF ReopenIInv, ClaimsAreCounted
  <2>5. HolderHasEffect'
    <3> SUFFICES ASSUME NEW v \in Workers, pc'[v] = "finish", claim'[v].result = "done",
                        claim'[v].job \in Jobs \ PlanJobs, HoldsClaim(v)'
                 PROVE  effects'[claim'[v].job] >= 1
      BY DEF HolderHasEffect
    <3>1. claim'[v] = claim[v] /\ pc[v] = "finish" /\ claim[v].job # j
      BY <1>b, <2>2, <2>3 DEF HoldsClaim, RowsTyped
    <3>2. HoldsClaim(v) /\ effects'[claim[v].job] = effects[claim[v].job]
      BY <1>b, <2>2, <3>1 DEF HoldsClaim, RowsTyped
    <3> QED
      BY <3>1, <3>2 DEF ReopenIInv, HolderHasEffect
  <2>6. j \notin PlanJobs /\ claim[w].result = "done" => effects[j] >= 1
    BY <2>1, <2>2 DEF ReopenIInv, HolderHasEffect
  <2>7. CompletedMeansRun'
    BY <1>b, <2>2, <2>6 DEF ReopenIInv, CompletedMeansRun, RowsTyped
  <2> QED
    BY <1>a, <2>4, <2>5, <2>7 DEF ReopenIInv
<1>6. ASSUME NEW w \in Workers, NEW j \in Jobs, TerminateExhausted(w, j)
      PROVE  ReopenIInv'
  <2>1. /\ FailJob(j, attempts[j], FALSE) /\ UNCHANGED countVars
        /\ Return(w, picked[w] \ {j})
    BY <1>6 DEF TerminateExhausted
  <2>2. attempts[j] \in Nat
    BY <1>b DEF RowsTyped
  <2> QED
    BY <1>a, <1>b, <2>1, <2>2, FailIsQuiet, ReturnClears, QuietStep DEF countVars
<1>7. ASSUME NEW w \in Workers, FailChecked(w) PROVE ReopenIInv'
  <2>1. claim[w].job \in Jobs /\ attempts[claim[w].job] \in Nat
    BY <1>7, <1>b, <1>c DEF FailChecked, RowsTyped
  <2>2. UNCHANGED countVars /\ Return(w, picked[w])
    BY <1>7 DEF FailChecked
  <2>3. CASE FailJob(claim[w].job, attempts[claim[w].job], TRUE)
    BY <1>a, <1>b, <2>1, <2>2, <2>3, FailIsQuiet, ReturnClears, QuietStep DEF countVars
  <2>4. CASE UNCHANGED rowVars
    BY <1>a, <1>b, <2>2, <2>4, ReturnClears, QuietStep DEF countVars, rowVars
  <2> QED
    BY <1>7, <2>3, <2>4 DEF FailChecked
<1>8. ASSUME NEW w \in Workers, FailUnchecked(w) PROVE ReopenIInv'
  <2>1. PICK att \in {claim[w].attempts, attempts[claim[w].job]} :
          FailJob(claim[w].job, att, pc[w] = "fail")
    BY <1>8 DEF FailUnchecked
  <2>2. claim[w].job \in Jobs /\ att \in Nat
    BY <1>8, <1>b, <1>c DEF FailUnchecked, RowsTyped, WorkersTyped, Claims
  <2>3. UNCHANGED countVars /\ Return(w, picked[w])
    BY <1>8 DEF FailUnchecked
  <2> QED
    BY <1>a, <1>b, <2>1, <2>2, <2>3, FailIsQuiet, ReturnClears, QuietStep DEF countVars
<1>9. ASSUME NEW j \in Jobs, ReconcileCallJob(j) PROVE ReopenIInv'
  BY <1>9, <1>a, <1>b, QuietStep
  DEF ReconcileCallJob, RowsTyped, workerVars, countVars
<1>10. ASSUME NEW w \in Workers, UNCHANGED rowVars, UNCHANGED <<claims, effects>>,
              \/ PollPending(w) \/ IgnoreInactiveTenant(w) \/ HandlerRaises(w)
              \/ LockPlan(w) /\ claim' = claim
       PROVE  ReopenIInv'
  <2>1. \A v \in Workers :
           \/ claim'[v] = claim[v] /\ pc'[v] \in {pc[v]} \cup {"run", "recheck", "fail",
                                                     "failForGood", "drain"}
           \/ claim'[v] = NoClaim
           \/ claim'[v] = [claim[v] EXCEPT !.result = "ignored"]
    <3>1. CASE PollPending(w) \/ HandlerRaises(w)
      BY <1>b, <3>1 DEF PollPending, HandlerRaises, WorkersTyped
    <3>2. CASE IgnoreInactiveTenant(w)
      BY <1>b, <3>2 DEF IgnoreInactiveTenant, WorkersTyped
    <3>3. CASE LockPlan(w) /\ claim' = claim
      BY <1>b, <3>3 DEF LockPlan, Return, WorkersTyped
    <3> QED
      BY <1>10, <3>1, <3>2, <3>3
  <2> QED
    BY <1>10, <1>a, <2>1, QuietStep DEF rowVars
<1>11. ASSUME NEW w \in Workers, UNCHANGED rowVars, UNCHANGED <<claims, effects>>,
              NEW left, Return(w, left)
       PROVE  ReopenIInv'
  BY <1>11, <1>a, <1>b, ReturnClears, QuietStep DEF rowVars
<1>12. ASSUME UNCHANGED <<status, attempts, leased, result, workerVars, countVars>>
       PROVE  ReopenIInv'
  BY <1>12, <1>a, QuietStep DEF workerVars, countVars
<1>13. ASSUME NEW w \in Workers, LockPlan(w) PROVE ReopenIInv'
  BY <1>13, <1>10, <1>11 DEF LockPlan, countVars
<1>14. ASSUME NEW w \in Workers, Crash(w) PROVE ReopenIInv'
  BY <1>14, <1>11 DEF Crash
<1>15. ASSUME NEW w \in Workers, NEW j \in Jobs, SkipJob(w, j) PROVE ReopenIInv'
  BY <1>15, <1>11 DEF SkipJob, countVars
<1>16. ASSUME NEW w \in Workers, DiscardResult(w) PROVE ReopenIInv'
  BY <1>16, <1>11 DEF DiscardResult, countVars
<1>17. ASSUME NEW w \in Workers,
              PollPending(w) \/ IgnoreInactiveTenant(w) \/ HandlerRaises(w)
       PROVE  ReopenIInv'
  BY <1>17, <1>10 DEF PollPending, IgnoreInactiveTenant, HandlerRaises, countVars
<1> QED
  BY <1>1, <1>2, <1>3, <1>4, <1>5, <1>6, <1>7, <1>8, <1>9, <1>12, <1>13, <1>14,
     <1>15, <1>16, <1>17
  DEF Next, WorkerStep, CallerStep, vars, rowVars, ReadForReopen, AbandonReopen,
      LeaseExpires, BackoffElapses

\* However many schedulers and enqueuers there are, a row is never completed by
\* a run that belongs to the facts before it was re-opened.
THEOREM ReopenedRowIsRunAgain == Spec => []CompletedMeansRun
<1>1. Init => ReopenIInv
  BY InitIInv DEF Init, ReopenIInv, ClaimsAreCounted, HolderHasEffect, CompletedMeansRun,
                  NoClaim
<1>2. ReopenIInv => CompletedMeansRun
  BY DEF ReopenIInv
<1> QED
  BY <1>1, <1>2, NextReopenIInv, PTL DEF Spec

------------------------------------------------------------------------------
(***************************************************************************)
(* One poller for each row.                                                *)
(***************************************************************************)

\* No two pollers drain the same kinds: one scheduler, whose general and voice
\* pollers divide the queue (services/scheduler.py).
OnePollerEach == \A v, w \in Workers : v # w => Queue[v] \cap Queue[w] = {}

\* A worker picks and claims from its own part of the queue.
OwnRows ==
    \A w \in Workers : /\ picked[w] \subseteq Queue[w]
                       /\ claim[w].job \in Jobs => claim[w].job \in Queue[w]

\* The attempts a worker counted when it claimed are still the most there are.
AttemptsAreKnown ==
    \A w \in Workers :
        claim[w].job \in Jobs => attempts[claim[w].job] <= claim[w].attempts

AloneInv == OwnRows /\ AttemptsAreKnown /\ AllPendingIsClaimable

\* A step that counts no attempt up, makes no other row pending and gives no
\* worker a new row.
LEMMA NoAttemptMade ==
    ASSUME TypeOK, AloneInv,
           attempts' \in [Jobs -> 0..MaxAttempts],
           \A j \in Jobs : attempts'[j] <= attempts[j],
           \A j \in Jobs : status'[j] = "pending" =>
              status[j] = "pending" \/ attempts'[j] < MaxAttempts,
           \A w \in Workers :
              /\ picked'[w] \subseteq Queue[w]
              /\ claim'[w].job \in Jobs => /\ claim'[w].job = claim[w].job
                                           /\ claim'[w].attempts = claim[w].attempts
    PROVE  AloneInv'
<1>1. OwnRows'
  BY DEF AloneInv, OwnRows
<1>2. \A j \in Jobs : attempts[j] \in Nat /\ attempts'[j] \in Nat
  BY BoundsAssumption DEF TypeOK, RowsTyped
<1>3. AttemptsAreKnown'
  <2> SUFFICES ASSUME NEW w \in Workers, claim'[w].job \in Jobs
               PROVE  attempts'[claim'[w].job] <= claim'[w].attempts
    BY DEF AttemptsAreKnown
  <2>1. /\ claim'[w].job = claim[w].job /\ claim'[w].attempts = claim[w].attempts
        /\ claim[w].attempts \in Nat
    BY DEF TypeOK, WorkersTyped, Claims
  <2>2. attempts[claim[w].job] <= claim[w].attempts
    BY <2>1 DEF AloneInv, AttemptsAreKnown
  <2> QED
    BY <1>2, <2>1, <2>2
<1>4. AllPendingIsClaimable'
  BY <1>2, BoundsAssumption DEF AloneInv, AllPendingIsClaimable, PendingIsClaimable
<1> QED
  BY <1>1, <1>3, <1>4 DEF AloneInv

\* What a worker keeps when process_job returns.
LEMMA ReturnKeeps ==
    ASSUME TypeOK, AloneInv, NEW w \in Workers, NEW left, left \subseteq picked[w],
           Return(w, left)
    PROVE  \A v \in Workers :
              /\ picked'[v] \subseteq Queue[v]
              /\ claim'[v].job \in Jobs => /\ claim'[v].job = claim[v].job
                                           /\ claim'[v].attempts = claim[v].attempts
<1>1. NoClaim.job \notin Jobs
  BY KindsAssumption DEF NoClaim
<1>2. \A v \in Workers : picked[v] \subseteq Queue[v]
  BY DEF AloneInv, OwnRows
<1> QED
  BY <1>1, <1>2 DEF Return, TypeOK, WorkersTyped

\* A worker that fails a row nobody else has claimed, by the attempts it
\* counted or by those of the row.
LEMMA FailKeepsAlone ==
    ASSUME OnePollerEach, TypeOK, AloneInv, NEW w \in Workers, NEW j \in Jobs, NEW att \in Nat,
           NEW retryable \in BOOLEAN, FailJob(j, att, retryable), attempts[j] <= att,
           j \in Queue[w], NEW left, left \subseteq picked[w], Return(w, left)
    PROVE  AloneInv'
<1>1. /\ status' = [status EXCEPT ![j] = status'[j]]
      /\ status'[j] \in {"pending", "failed"}
      /\ attempts' \in [Jobs -> 0..MaxAttempts]
      /\ \A k \in Jobs \ {j} : attempts'[k] = attempts[k]
      /\ status'[j] = "pending" => attempts'[j] = attempts[j] /\ att < MaxAttempts
  BY FailTyped DEF TypeOK
<1>2. \A v \in Workers :
         /\ picked'[v] \subseteq Queue[v]
         /\ claim'[v].job \in Jobs => /\ claim'[v].job = claim[v].job
                                      /\ claim'[v].attempts = claim[v].attempts
  BY ReturnKeeps
<1>3. \A v \in Workers : claim'[v].job # j
  <2>1. claim'[w].job = NoJob
    BY DEF Return, TypeOK, WorkersTyped, NoClaim
  <2>2. \A v \in Workers \ {w} : j \notin Queue[v]
    BY DEF OnePollerEach
  <2> QED
    BY <1>2, <2>1, <2>2, KindsAssumption DEF AloneInv, OwnRows
<1>4. OwnRows'
  BY <1>2 DEF AloneInv, OwnRows
<1>5. AttemptsAreKnown'
  <2> SUFFICES ASSUME NEW v \in Workers, claim'[v].job \in Jobs
               PROVE  attempts'[claim'[v].job] <= claim'[v].attempts
    BY DEF AttemptsAreKnown
  <2>1. attempts'[claim'[v].job] = attempts[claim[v].job]
    BY <1>1, <1>2, <1>3
  <2> QED
    BY <1>2, <2>1 DEF AloneInv, AttemptsAreKnown
<1>6. AllPendingIsClaimable'
  <2> SUFFICES ASSUME NEW k \in Jobs, status'[k] = "pending"
               PROVE  attempts'[k] < MaxAttempts
    BY DEF AllPendingIsClaimable, PendingIsClaimable
  <2>1. CASE k = j
    BY <1>1, <2>1, BoundsAssumption DEF TypeOK, RowsTyped
  <2>2. CASE k # j
    BY <1>1, <2>2 DEF TypeOK, RowsTyped, AloneInv, AllPendingIsClaimable, PendingIsClaimable
  <2> QED
    BY <2>1, <2>2
<1> QED
  BY <1>4, <1>5, <1>6 DEF AloneInv

\* A claim counts an attempt of a row no other worker has.
LEMMA ClaimKeepsAlone ==
    ASSUME OnePollerEach, TypeOK, TypeOK', AloneInv, NEW w \in Workers, NEW j \in Jobs,
           ClaimJob(w, j)
    PROVE  AloneInv'
<1> DEFINE new == [job |-> j, attempts |-> attempts[j] + 1, leased |-> claims[j] + 1,
                   result |-> "none"]
<1>1. /\ status' = [status EXCEPT ![j] = "running"]
      /\ attempts' = [attempts EXCEPT ![j] = attempts[j] + 1]
      /\ claim' = [claim EXCEPT ![w] = new]
      /\ picked' = [picked EXCEPT ![w] = picked[w] \ {j}]
      /\ j \in picked[w]
  BY DEF ClaimJob, TypeOK, RowsTyped, WorkersTyped
<1>2. new.job = j /\ new.attempts = attempts[j] + 1
  OBVIOUS
<1> HIDE DEF new
<1>3. /\ claim'[w] = new /\ \A v \in Workers \ {w} : claim'[v] = claim[v]
      /\ \A v \in Workers : picked'[v] \subseteq picked[v]
  BY <1>1 DEF TypeOK, WorkersTyped
<1>4. \A v \in Workers : picked[v] \subseteq Queue[v]
  BY DEF AloneInv, OwnRows
<1>5. j \in Queue[w] /\ \A v \in Workers \ {w} : j \notin Queue[v]
  BY <1>1, <1>4 DEF OnePollerEach
<1>6. OwnRows'
  BY <1>2, <1>3, <1>4, <1>5 DEF AloneInv, OwnRows
<1>7. AttemptsAreKnown'
  <2> SUFFICES ASSUME NEW v \in Workers, claim'[v].job \in Jobs
               PROVE  attempts'[claim'[v].job] <= claim'[v].attempts
    BY DEF AttemptsAreKnown
  <2>1. CASE v = w
    BY <1>1, <1>2, <1>3, <2>1 DEF TypeOK, RowsTyped
  <2>2. CASE v # w
    <3>1. claim'[v] = claim[v] /\ claim[v].job # j
      BY <1>3, <1>5, <2>2 DEF AloneInv, OwnRows
    <3>2. attempts'[claim[v].job] = attempts[claim[v].job]
      BY <1>1, <3>1 DEF TypeOK, RowsTyped
    <3> QED
      BY <3>1, <3>2 DEF AloneInv, AttemptsAreKnown
  <2> QED
    BY <2>1, <2>2
<1>8. AllPendingIsClaimable'
  BY <1>1 DEF AloneInv, AllPendingIsClaimable, PendingIsClaimable, TypeOK, RowsTyped
<1> QED
  BY <1>6, <1>7, <1>8 DEF AloneInv

LEMMA NextAlone ==
    ASSUME OnePollerEach, IInv, IInv', AloneInv, [Next]_vars
    PROVE  AloneInv'
<1>1. /\ TypeOK /\ TypeOK'
      /\ attempts \in [Jobs -> 0..MaxAttempts] /\ \A j \in Jobs : attempts[j] \in Nat
      /\ picked \in [Workers -> SUBSET Jobs] /\ claim \in [Workers -> Claims]
      /\ \A w \in Workers : claim[w].job = NoJob <=> pc[w] \in {"idle", "drain"}
      /\ \A w \in Workers : picked[w] \subseteq Queue[w]
  BY BoundsAssumption DEF IInv, TypeOK, RowsTyped, WorkersTyped, AloneInv, OwnRows
<1>2. ASSUME UNCHANGED attempts,
             \A j \in Jobs : status'[j] = "pending" => status[j] = "pending",
             \A w \in Workers :
                /\ picked'[w] \subseteq Queue[w]
                /\ claim'[w].job \in Jobs => /\ claim'[w].job = claim[w].job
                                             /\ claim'[w].attempts = claim[w].attempts
      PROVE  AloneInv'
  BY <1>1, <1>2, NoAttemptMade
<1>3. ASSUME NEW w \in Workers, NEW left, left \subseteq picked[w], Return(w, left),
             UNCHANGED attempts,
             \A j \in Jobs : status'[j] = "pending" => status[j] = "pending"
      PROVE  AloneInv'
  BY <1>1, <1>2, <1>3, ReturnKeeps
<1>4. ASSUME UNCHANGED <<picked, claim>>, UNCHANGED attempts,
             \A j \in Jobs : status'[j] = "pending" => status[j] = "pending"
      PROVE  AloneInv'
  BY <1>1, <1>2, <1>4
<1>5. ASSUME NEW j \in Jobs, EnqueueJob(j)
      PROVE  AloneInv'
  <2>1. /\ UNCHANGED <<attempts, picked, claim>> /\ attempts[j] = 0
        /\ status' = [status EXCEPT ![j] = "pending"]
    BY <1>5 DEF EnqueueJob, workerVars, IInv, AbsentIsFresh
  <2>2. \A k \in Jobs : status'[k] = "pending" =>
           status[k] = "pending" \/ attempts'[k] < MaxAttempts
    BY <2>1, BoundsAssumption DEF TypeOK, RowsTyped, IInv
  <2> QED
    BY <1>1, <2>1, <2>2, NoAttemptMade
<1>6. ASSUME NEW c \in Callers, NEW j \in Jobs, ReopenJob(c, j)
      PROVE  AloneInv'
  <2>1. /\ UNCHANGED <<picked, claim>>
        /\ attempts' = [attempts EXCEPT ![j] = 0]
        /\ status' = [status EXCEPT ![j] = "pending"]
    BY <1>6 DEF ReopenJob, workerVars
  <2>2. /\ attempts' \in [Jobs -> 0..MaxAttempts]
        /\ \A k \in Jobs : attempts'[k] <= attempts[k]
        /\ \A k \in Jobs : status'[k] = "pending" =>
              status[k] = "pending" \/ attempts'[k] < MaxAttempts
    BY <1>1, <2>1, BoundsAssumption DEF TypeOK, RowsTyped
  <2> QED
    BY <1>1, <2>1, <2>2, NoAttemptMade
<1>7. ASSUME NEW w \in Workers, PollPending(w)
      PROVE  AloneInv'
  <2>1. /\ UNCHANGED <<status, attempts, claim>>
        /\ picked' = [picked EXCEPT ![w] = FirstCandidates(w)]
    BY <1>7 DEF PollPending, rowVars
  <2>2. FirstCandidates(w) \subseteq Queue[w]
    BY DEF FirstCandidates, Candidates
  <2> QED
    BY <1>1, <1>2, <2>1, <2>2
<1>8. ASSUME NEW w \in Workers, NEW j \in Jobs, TerminateExhausted(w, j)
      PROVE  AloneInv'
  <2>1. /\ FailJob(j, attempts[j], FALSE) /\ j \in picked[w]
        /\ Return(w, picked[w] \ {j})
    BY <1>8 DEF TerminateExhausted
  <2>2. attempts[j] \in Nat /\ attempts[j] <= attempts[j]
    BY <1>1
  <2> QED
    BY <1>1, <2>1, <2>2, FailKeepsAlone
<1>9. ASSUME NEW w \in Workers, NEW j \in Jobs, ClaimJob(w, j)
      PROVE  AloneInv'
  BY <1>1, <1>9, ClaimKeepsAlone
<1>10. ASSUME NEW w \in Workers, NEW j \in Jobs, SkipJob(w, j)
       PROVE  AloneInv'
  BY <1>3, <1>10 DEF SkipJob, rowVars
<1>11. ASSUME NEW w \in Workers, LockPlan(w)
       PROVE  AloneInv'
  BY <1>3, <1>4, <1>11 DEF LockPlan, rowVars
<1>12. ASSUME NEW w \in Workers, IgnoreInactiveTenant(w) \/ HandlerReturns(w)
       PROVE  AloneInv'
  <2>1. /\ UNCHANGED <<status, attempts, picked>>
        /\ \E res \in {"done", "ignored"} : claim' = [claim EXCEPT ![w].result = res]
    BY <1>12 DEF IgnoreInactiveTenant, HandlerReturns, rowVars
  <2>2. \A v \in Workers : /\ claim'[v].job = claim[v].job
                           /\ claim'[v].attempts = claim[v].attempts
    BY <1>1, <2>1 DEF Claims
  <2> QED
    BY <1>1, <1>2, <2>1, <2>2
<1>13. ASSUME NEW w \in Workers, HandlerRaises(w)
       PROVE  AloneInv'
  BY <1>4, <1>13 DEF HandlerRaises, rowVars
<1>14. ASSUME NEW w \in Workers, FinishJob(w)
       PROVE  AloneInv'
  <2>1. /\ UNCHANGED attempts /\ Return(w, picked[w])
        /\ status' = [status EXCEPT ![claim[w].job] = "completed"]
    BY <1>14 DEF FinishJob
  <2>2. \A k \in Jobs : status'[k] = "pending" => status[k] = "pending"
    BY <2>1 DEF IInv, TypeOK, RowsTyped
  <2> QED
    BY <1>3, <2>1, <2>2
<1>15. ASSUME NEW w \in Workers, DiscardResult(w)
       PROVE  AloneInv'
  BY <1>3, <1>15 DEF DiscardResult, rowVars
<1>16. ASSUME NEW w \in Workers, NEW att \in {claim[w].attempts, attempts[claim[w].job]},
              NEW retryable \in BOOLEAN, FailJob(claim[w].job, att, retryable),
              pc[w] \notin {"idle", "drain"}, Return(w, picked[w])
       PROVE  AloneInv'
  <2>1. claim[w].job \in Jobs
    BY <1>1, <1>16 DEF Claims
  <2>2. /\ claim[w].job \in Queue[w] /\ attempts[claim[w].job] <= claim[w].attempts
    BY <2>1 DEF AloneInv, OwnRows, AttemptsAreKnown
  <2>3. att \in Nat /\ attempts[claim[w].job] <= att
    BY <1>1, <2>1, <2>2 DEF Claims
  <2> QED
    BY <1>1, <1>16, <2>1, <2>2, <2>3, FailKeepsAlone
<1>17. ASSUME NEW w \in Workers, FailChecked(w)
       PROVE  AloneInv'
  <2>1. pc[w] = "recheck" /\ Return(w, picked[w])
    BY <1>17 DEF FailChecked
  <2>2. CASE FailJob(claim[w].job, attempts[claim[w].job], TRUE)
    BY <1>16, <2>1, <2>2
  <2>3. CASE UNCHANGED rowVars
    BY <1>3, <2>1, <2>3 DEF rowVars
  <2> QED
    BY <1>17, <2>2, <2>3 DEF FailChecked
<1>18. ASSUME NEW w \in Workers, FailUnchecked(w)
       PROVE  AloneInv'
  <2>1. PICK att \in {claim[w].attempts, attempts[claim[w].job]} :
           FailJob(claim[w].job, att, pc[w] = "fail")
    BY <1>18 DEF FailUnchecked
  <2>2. pc[w] \in {"fail", "failForGood"} /\ Return(w, picked[w])
    BY <1>18 DEF FailUnchecked
  <2>3. (pc[w] = "fail") \in BOOLEAN
    OBVIOUS
  <2> QED
    BY <1>16, <2>1, <2>2, <2>3
<1>19. ASSUME NEW j \in Jobs, ReconcileCallJob(j)
       PROVE  AloneInv'
  <2>1. /\ UNCHANGED <<attempts, picked, claim>>
        /\ status' = [status EXCEPT ![j] = "completed"]
    BY <1>19 DEF ReconcileCallJob, workerVars
  <2>2. \A k \in Jobs : status'[k] = "pending" => status[k] = "pending"
    BY <2>1 DEF IInv, TypeOK, RowsTyped
  <2> QED
    BY <1>4, <2>1, <2>2
<1>20. ASSUME UNCHANGED <<status, attempts, workerVars>>
       PROVE  AloneInv'
  BY <1>4, <1>20 DEF workerVars
<1>21. ASSUME NEW w \in Workers, Crash(w)
       PROVE  AloneInv'
  BY <1>3, <1>21 DEF Crash, rowVars
<1> QED
  BY <1>5, <1>6, <1>7, <1>8, <1>9, <1>10, <1>11, <1>12, <1>13, <1>14, <1>15, <1>17,
     <1>18, <1>19, <1>20, <1>21
  DEF Next, WorkerStep, CallerStep, vars, rowVars, ReadForReopen, AbandonReopen,
      LeaseExpires, BackoffElapses

\* Where one scheduler's pollers divide the queue among them, a pending row of
\* any kind has an attempt left, whatever dies, expires or is re-opened; with two
\* that share a kind the unchecked failure path breaks it.
THEOREM AlonePendingIsClaimable ==
    ASSUME OnePollerEach
    PROVE  Spec => []AllPendingIsClaimable
<1>1. Init => AloneInv
  BY KindsAssumption, BoundsAssumption
  DEF Init, AloneInv, OwnRows, AttemptsAreKnown, AllPendingIsClaimable,
      PendingIsClaimable, NoClaim
<1>2. IInv /\ IInv' /\ AloneInv /\ [Next]_vars => AloneInv'
  BY NextAlone
<1>3. AloneInv => AllPendingIsClaimable
  BY DEF AloneInv
<1> QED
  BY <1>1, <1>2, <1>3, Invariance, PTL DEF Spec

================================================================================
