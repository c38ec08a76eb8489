----------------------------- MODULE DurableJobs -----------------------------
(***************************************************************************)
(* The durable job queue of one tenant: the rows of table durable_jobs,    *)
(* the scheduler processes that drain them (durable_job_worker.py) and the *)
(* request handlers that enqueue and re-open them (durable_jobs.py).       *)
(*                                                                         *)
(* Time is relative.  A row keeps only what the code compares: whether its *)
(* lease is older than the 15 minutes both queries use (expired), whether  *)
(* available_at has passed (due), and the order of available_at among the  *)
(* rows that can still run (ahead).  leased_at is the number of the claim  *)
(* that wrote it, because two claims of a row never share a timestamp.     *)
(*                                                                         *)
(* A row lock taken with FOR UPDATE is not a variable: it is held exactly  *)
(* while a worker is between the lock and the end of its transaction, see  *)
(* Locked.                                                                 *)
(***************************************************************************)
EXTENDS Naturals, FiniteSets

CONSTANTS
    Jobs,             \* rows, one per (tenant, kind, idempotency_key)
    PlanJobs,         \* kinds with atomic_completion and redact_failure
    RuntimeJobs,      \* kind workflow_run: redact_failure only
    VoiceJobs,        \* the zoom_phone and teams_voice kinds
    ZoomCallJobs,     \* kind zoom_phone_call_import, one of the voice kinds
    ReopenFailed,     \* rows whose enqueuers pass requeue_failed
    ReopenCompleted,  \* rows whose enqueuers pass requeue_completed
    Workers,          \* pollers of the scheduler processes, one drain each
    Queue,            \* which rows a poller's include/exclude_kinds leave it
    Callers,          \* request handlers calling enqueue_job
    NoJob,            \* "this worker holds no claim"
    MaxAttempts,      \* DurableJob.max_attempts
    DrainLimit,       \* each poller's per_tenant_limit
    MaxReopens,       \* bound: how often each row is re-opened
    MaxCrashes        \* bound: how many worker processes die

ASSUME KindsAssumption ==
    /\ PlanJobs \subseteq Jobs /\ RuntimeJobs \subseteq Jobs
    /\ ZoomCallJobs \subseteq VoiceJobs /\ VoiceJobs \subseteq Jobs
    /\ PlanJobs \cap RuntimeJobs = {}
    /\ VoiceJobs \cap (PlanJobs \cup RuntimeJobs) = {}
    /\ NoJob \notin Jobs
ASSUME ReopenAssumption ==
    \* No enqueuer of a redacted kind passes a requeue flag.
    (ReopenFailed \cup ReopenCompleted)
        \subseteq Jobs \ (PlanJobs \cup RuntimeJobs)
ASSUME BoundsAssumption ==
    /\ MaxAttempts \in Nat \ {0}
    /\ Queue \in [Workers -> SUBSET Jobs]
    /\ DrainLimit \in [Workers -> Nat \ {0}]
    /\ MaxReopens \in Nat /\ MaxCrashes \in Nat

Redacted == PlanJobs \cup RuntimeJobs

VARIABLES
    status,     \* [Jobs -> Statuses]
    attempts,   \* [Jobs -> 0..MaxAttempts]
    leased,     \* leased_at: number of the claim that wrote it, 0 for NULL
    expired,    \* leased_at < now - 15 minutes
    due,        \* available_at <= now
    ahead,      \* <<j, k>>: j.available_at precedes k.available_at
    result,     \* what completed the row: "none", "done", "ignored", "reconciled"
    pc,         \* [Workers -> where process_job stands]
    picked,     \* job_ids the worker's drain query returned and has not tried
    claim,      \* the row object and claim_token a worker keeps in memory
    reopening,  \* rows a caller read as re-openable and is about to update
    claims,     \* claims made of each row so far: the source of leased_at
    effects,    \* handler effects committed since the row was last (re)opened
    reopens,    \* re-openings so far, bounded by MaxReopens
    crashes     \* worker deaths so far, bounded by MaxCrashes

rowVars    == <<status, attempts, leased, expired, due, ahead, result>>
workerVars == <<pc, picked, claim>>
countVars  == <<claims, effects, reopens, crashes>>
vars == <<rowVars, workerVars, reopening, countVars>>

Statuses == {"absent", "pending", "running", "completed", "failed"}
NoClaim == [job |-> NoJob, attempts |-> 0, leased |-> 0, result |-> "none"]

(***************************************************************************)
(* available_at.  Only rows that can still run take part in the order.     *)
(***************************************************************************)
Live == {j \in Jobs : status[j] \in {"pending", "running"}}
Without(j) == {p \in ahead : p[1] # j /\ p[2] # j}
Place(j, before) ==
    ahead' = Without(j) \cup (before \X {j})
                        \cup ({j} \X (Live \ (before \cup {j})))

\* available_at = now(): after every row already due, before every other.
AvailableNow(j) ==
    /\ due' = [due EXCEPT ![j] = TRUE]
    /\ Place(j, {k \in Live \ {j} : due[k]})

\* available_at = now() + backoff: after every row already due, anywhere
\* among the rows that are still waiting.
AvailableLater(j) ==
    /\ due' = [due EXCEPT ![j] = FALSE]
    /\ \E earlier \in SUBSET {k \in Live \ {j} : ~due[k]} :
        /\ \A k \in earlier, i \in Live \ {j} :
              <<i, k>> \in ahead /\ ~due[i] => i \in earlier
        /\ Place(j, earlier \cup {k \in Live \ {j} : due[k]})

LeaveOrder(j) == ahead' = Without(j) /\ UNCHANGED due

BackoffElapses(j) ==
    /\ status[j] = "pending" /\ ~due[j]
    /\ \A k \in Live : <<k, j>> \in ahead => due[k]
    /\ due' = [due EXCEPT ![j] = TRUE]
    /\ UNCHANGED <<status, attempts, leased, expired, ahead, result>>
    /\ UNCHANGED <<workerVars, reopening, countVars>>

LeaseExpires(j) ==
    /\ status[j] = "running" /\ ~expired[j]
    /\ expired' = [expired EXCEPT ![j] = TRUE]
    /\ UNCHANGED <<status, attempts, leased, due, ahead, result>>
    /\ UNCHANGED <<workerVars, reopening, countVars>>

(***************************************************************************)
(* Row locks and claims.                                                   *)
(***************************************************************************)

\* A planner holds its row FOR UPDATE from the check of its claim until its
\* transaction ends.
Locked(j) == j \in PlanJobs
             /\ \E w \in Workers : claim[w].job = j /\ pc[w] \in {"run", "finish"}

\* Mutant: the row is not read again, the worker trusts its own copy.
HoldsClaimUnasked(w) == claim[w].job \in Jobs

HoldsClaim(w) ==
    LET j == claim[w].job IN
    /\ status[j] = "running"
    /\ attempts[j] = claim[w].attempts
    /\ leased[j] = claim[w].leased

\* Mutant: one attempt too many.
ClaimableOnceMore(j) == /\ attempts[j] <= MaxAttempts
                        /\ due[j]
                        /\ \/ status[j] = "pending"
                           \/ status[j] = "running" /\ expired[j]

Claimable(j) == /\ attempts[j] < MaxAttempts
                /\ due[j]
                /\ \/ status[j] = "pending"
                   \/ status[j] = "running" /\ expired[j]

\* Mutant: no recovery of a redacted row whose last attempt never ended.
ExhaustedNever(j) == FALSE

Exhausted(j) == /\ j \in Redacted
                /\ status[j] = "running"
                /\ attempts[j] >= MaxAttempts
                /\ expired[j]

(***************************************************************************)
(* enqueue_job.  The row is read without a lock; the update it leads to is *)
(* a statement of its own.  The caller's copy has leased_at = NULL, so the *)
(* ORM leaves that column out of the update.                               *)
(***************************************************************************)
EnqueueJob(j) ==
    /\ status[j] = "absent"
    /\ status' = [status EXCEPT ![j] = "pending"]
    /\ AvailableNow(j)
    /\ UNCHANGED <<attempts, leased, expired, result>>
    /\ UNCHANGED <<workerVars, reopening, countVars>>

ReadForReopen(c, j) ==
    /\ reopening[c] = {}
    /\ \/ status[j] = "failed" /\ j \in ReopenFailed
       \/ status[j] = "completed" /\ j \in ReopenCompleted
    /\ reopens[j] < MaxReopens
    /\ reopening' = [reopening EXCEPT ![c] = {j}]
    /\ UNCHANGED <<rowVars, workerVars, countVars>>

ReopenJob(c, j) ==
    /\ reopening[c] = {j} /\ reopens[j] < MaxReopens
    /\ status' = [status EXCEPT ![j] = "pending"]
    /\ attempts' = [attempts EXCEPT ![j] = 0]
    /\ result' = [result EXCEPT ![j] = "none"]
    /\ AvailableNow(j)
    /\ reopening' = [reopening EXCEPT ![c] = {}]
    /\ effects' = [effects EXCEPT ![j] = 0]
    /\ reopens' = [reopens EXCEPT ![j] = @ + 1]
    /\ UNCHANGED <<leased, expired, workerVars, claims, crashes>>

\* The caller's transaction rolls back instead.
AbandonReopen(c) ==
    /\ reopening[c] # {}
    /\ reopening' = [reopening EXCEPT ![c] = {}]
    /\ UNCHANGED <<rowVars, workerVars, countVars>>

(***************************************************************************)
(* fail_job, on a row object whose attempts column reads att.  The ORM     *)
(* writes only the columns whose value it changes.                         *)
(***************************************************************************)

\* Mutant: the last attempt is not recognised.
FailJobOffByOne(j, att, retryable) ==
    /\ leased' = [leased EXCEPT ![j] = 0]
    /\ expired' = [expired EXCEPT ![j] = FALSE]
    /\ status' = [status EXCEPT ![j] = IF retryable /\ att <= MaxAttempts
                                      THEN "pending" ELSE "failed"]
    /\ IF status'[j] = "pending" THEN AvailableLater(j) ELSE LeaveOrder(j)
    /\ UNCHANGED <<attempts, result>>

FailJob(j, att, retryable) ==
    /\ leased' = [leased EXCEPT ![j] = 0]
    /\ expired' = [expired EXCEPT ![j] = FALSE]
    /\ \/ /\ ~retryable
          /\ attempts' = IF att = MaxAttempts THEN attempts
                         ELSE [attempts EXCEPT ![j] = MaxAttempts]
          /\ status' = [status EXCEPT ![j] = "failed"]
          /\ LeaveOrder(j)
       \/ /\ retryable /\ att >= MaxAttempts
          /\ status' = [status EXCEPT ![j] = "failed"]
          /\ LeaveOrder(j)
          /\ UNCHANGED attempts
       \/ /\ retryable /\ att < MaxAttempts
          /\ status' = [status EXCEPT ![j] = "pending"]
          /\ AvailableLater(j)
          /\ UNCHANGED attempts
    /\ UNCHANGED result

(***************************************************************************)
(* process_job and the drain loop around it.                               *)
(***************************************************************************)
Candidates(w) == {j \in Queue[w] : /\ due[j]
                                   /\ \/ status[j] = "pending"
                                      \/ status[j] = "running" /\ expired[j]}

\* The candidates with the earliest available_at, up to the poller's limit.
FirstCandidates(w) ==
    {j \in Candidates(w) :
        Cardinality({k \in Candidates(w) : <<k, j>> \in ahead}) < DrainLimit[w]}

PollPending(w) ==
    /\ pc[w] = "idle" /\ Candidates(w) # {}
    /\ pc' = [pc EXCEPT ![w] = "drain"]
    /\ picked' = [picked EXCEPT ![w] = FirstCandidates(w)]
    /\ UNCHANGED <<rowVars, claim, reopening, countVars>>

\* process_job returned: go on with the next picked id, or end the drain.
Return(w, left) ==
    /\ pc' = [pc EXCEPT ![w] = IF left = {} THEN "idle" ELSE "drain"]
    /\ picked' = [picked EXCEPT ![w] = left]
    /\ claim' = [claim EXCEPT ![w] = NoClaim]

TerminateExhausted(w, j) ==
    /\ pc[w] = "drain" /\ j \in picked[w]
    /\ Exhausted(j) /\ ~Locked(j)
    /\ FailJob(j, attempts[j], FALSE)
    /\ Return(w, picked[w] \ {j})
    /\ UNCHANGED <<reopening, countVars>>

ClaimJob(w, j) ==
    /\ pc[w] = "drain" /\ j \in picked[w]
    /\ Claimable(j) /\ ~Locked(j)
    /\ status' = [status EXCEPT ![j] = "running"]
    /\ attempts' = [attempts EXCEPT ![j] = @ + 1]
    /\ claims' = [claims EXCEPT ![j] = @ + 1]
    /\ leased' = [leased EXCEPT ![j] = claims[j] + 1]
    /\ expired' = [expired EXCEPT ![j] = FALSE]
    /\ claim' = [claim EXCEPT ![w] = [job |-> j, attempts |-> attempts[j] + 1,
                                      leased |-> claims[j] + 1, result |-> "none"]]
    /\ picked' = [picked EXCEPT ![w] = @ \ {j}]
    /\ pc' = [pc EXCEPT ![w] = IF j \in PlanJobs THEN "lock" ELSE "run"]
    /\ UNCHANGED <<due, ahead, result, reopening, effects, reopens, crashes>>

\* The row is gone, taken, locked or not claimable any more.
SkipJob(w, j) ==
    /\ pc[w] = "drain" /\ j \in picked[w]
    /\ Locked(j) \/ (~Claimable(j) /\ ~Exhausted(j))
    /\ Return(w, picked[w] \ {j})
    /\ UNCHANGED <<rowVars, reopening, countVars>>

\* A planner re-reads its row FOR UPDATE and keeps the lock.
LockPlan(w) ==
    /\ pc[w] = "lock" /\ ~Locked(claim[w].job)
    /\ \/ /\ HoldsClaim(w)
          /\ pc' = [pc EXCEPT ![w] = "run"]
          /\ UNCHANGED <<picked, claim>>
       \/ ~HoldsClaim(w) /\ Return(w, picked[w])
    /\ UNCHANGED <<rowVars, reopening, countVars>>

\* The tenant was deactivated: the kind is not run at all.
IgnoreInactiveTenant(w) ==
    /\ pc[w] = "run" /\ claim[w].job \notin VoiceJobs \cup RuntimeJobs
    /\ pc' = [pc EXCEPT ![w] = "finish"]
    /\ claim' = [claim EXCEPT ![w].result = "ignored"]
    /\ UNCHANGED <<rowVars, picked, reopening, countVars>>

\* Mutant: a planner commits its plan before its row is completed.
HandlerReturnsCommitted(w) ==
    /\ pc[w] = "run"
    /\ pc' = [pc EXCEPT ![w] = "finish"]
    /\ claim' = [claim EXCEPT ![w].result = "done"]
    /\ effects' = [effects EXCEPT ![claim[w].job] = @ + 1]
    /\ UNCHANGED <<rowVars, picked, reopening, claims, reopens, crashes>>

\* A planner's writes stay in the open transaction; every other handler has
\* committed its own.
HandlerReturns(w) ==
    /\ pc[w] = "run"
    /\ pc' = [pc EXCEPT ![w] = "finish"]
    /\ claim' = [claim EXCEPT ![w].result = "done"]
    /\ effects' = IF claim[w].job \in PlanJobs THEN effects
                  ELSE [effects EXCEPT ![claim[w].job] = @ + 1]
    /\ UNCHANGED <<rowVars, picked, reopening, claims, reopens, crashes>>

\* Only the voice handlers raise errors that are not worth retrying.
HandlerRaises(w) ==
    /\ pc[w] = "run"
    /\ \/ claim[w].job \in Redacted /\ pc' = [pc EXCEPT ![w] = "recheck"]
       \/ claim[w].job \notin Redacted /\ pc' = [pc EXCEPT ![w] = "fail"]
       \/ claim[w].job \in VoiceJobs /\ pc' = [pc EXCEPT ![w] = "failForGood"]
    /\ UNCHANGED <<rowVars, picked, claim, reopening, countVars>>

FinishJob(w) ==
    /\ pc[w] = "finish" /\ HoldsClaim(w)
    /\ LET j == claim[w].job IN
        /\ status' = [status EXCEPT ![j] = "completed"]
        /\ result' = [result EXCEPT ![j] = claim[w].result]
        /\ leased' = [leased EXCEPT ![j] = 0]
        /\ expired' = [expired EXCEPT ![j] = FALSE]
        /\ LeaveOrder(j)
        /\ effects' = IF j \in PlanJobs /\ claim[w].result = "done"
                      THEN [effects EXCEPT ![j] = @ + 1] ELSE effects
    /\ Return(w, picked[w])
    /\ UNCHANGED <<attempts, reopening, claims, reopens, crashes>>

\* A newer worker owns the row: return False, writing nothing.
DiscardResult(w) ==
    /\ pc[w] = "finish" /\ ~HoldsClaim(w)
    /\ Return(w, picked[w])
    /\ UNCHANGED <<rowVars, reopening, countVars>>

\* Mutant: the redacted kinds share the other kinds' failure path.
FailCheckedNot(w) ==
    /\ pc[w] = "recheck" /\ ~Locked(claim[w].job)
    /\ FailJob(claim[w].job, claim[w].attempts, TRUE)
    /\ Return(w, picked[w])
    /\ UNCHANGED <<reopening, countVars>>

\* A redacted kind rolled back, re-reads its row FOR UPDATE and fails it only
\* if the claim is still its own.
FailChecked(w) ==
    /\ pc[w] = "recheck" /\ ~Locked(claim[w].job)
    /\ \/ HoldsClaim(w) /\ FailJob(claim[w].job, attempts[claim[w].job], TRUE)
       \/ ~HoldsClaim(w) /\ UNCHANGED rowVars
    /\ Return(w, picked[w])
    /\ UNCHANGED <<reopening, countVars>>

\* Every other kind fails the row object it got from claim_job: db.get returns
\* it from the session without reading the row again, unless the handler rolled
\* back and so expired it.
FailUnchecked(w) ==
    /\ pc[w] \in {"fail", "failForGood"}
    /\ \E att \in {claim[w].attempts, attempts[claim[w].job]} :
          FailJob(claim[w].job, att, pc[w] = "fail")
    /\ Return(w, picked[w])
    /\ UNCHANGED <<reopening, countVars>>

\* _run_zoom_phone_reconcile found the call a failed import job was about.
ReconcileCallJob(j) ==
    /\ j \in ZoomCallJobs /\ status[j] = "failed"
    /\ status' = [status EXCEPT ![j] = "completed"]
    /\ result' = [result EXCEPT ![j] = "reconciled"]
    /\ UNCHANGED <<attempts, leased, expired, due, ahead>>
    /\ UNCHANGED <<workerVars, reopening, countVars>>

\* The process dies, or an error escapes process_job and ends the drain: the
\* transaction rolls back, the leases stay behind.
Crash(w) ==
    /\ pc[w] # "idle" /\ crashes < MaxCrashes
    /\ crashes' = crashes + 1
    /\ Return(w, {})
    /\ UNCHANGED <<rowVars, reopening, claims, effects, reopens>>

------------------------------------------------------------------------------
Init ==
    /\ status = [j \in Jobs |-> "absent"]
    /\ attempts = [j \in Jobs |-> 0]
    /\ leased = [j \in Jobs |-> 0]
    /\ expired = [j \in Jobs |-> FALSE]
    /\ due = [j \in Jobs |-> FALSE]
    /\ ahead = {}
    /\ result = [j \in Jobs |-> "none"]
    /\ pc = [w \in Workers |-> "idle"]
    /\ picked = [w \in Workers |-> {}]
    /\ claim = [w \in Workers |-> NoClaim]
    /\ reopening = [c \in Callers |-> {}]
    /\ claims = [j \in Jobs |-> 0]
    /\ effects = [j \in Jobs |-> 0]
    /\ reopens = [j \in Jobs |-> 0]
    /\ crashes = 0

WorkerStep(w) ==
    \/ PollPending(w)
    \/ \E j \in Jobs : TerminateExhausted(w, j) \/ ClaimJob(w, j) \/ SkipJob(w, j)
    \/ LockPlan(w) \/ IgnoreInactiveTenant(w)
    \/ HandlerReturns(w) \/ HandlerRaises(w)
    \/ FinishJob(w) \/ DiscardResult(w) \/ FailChecked(w) \/ FailUnchecked(w)

CallerStep(c) == \/ \E j \in Jobs : ReadForReopen(c, j) \/ ReopenJob(c, j)
                 \/ AbandonReopen(c)

Next ==
    \/ \E w \in Workers : WorkerStep(w) \/ Crash(w)
    \/ \E c \in Callers : CallerStep(c)
    \/ \E j \in Jobs : \/ EnqueueJob(j) \/ ReconcileCallJob(j)
                       \/ LeaseExpires(j) \/ BackoffElapses(j)

Spec == Init /\ [][Next]_vars

\* The scheduler polls every few seconds and restarts when it dies, handlers
\* end, and time passes.  Nothing obliges a caller or a crash to happen.
Fairness == /\ \A w \in Workers : WF_vars(WorkerStep(w))
            /\ \A j \in Jobs : WF_vars(LeaseExpires(j)) /\ WF_vars(BackoffElapses(j))

FairSpec == Spec /\ Fairness

------------------------------------------------------------------------------
(***************************************************************************)
(* Properties.                                                             *)
(***************************************************************************)

\* Every row, worker and caller is in a state the code knows; a claim number
\* never exceeds the claims made.
Claims == [job : Jobs \cup {NoJob}, attempts : Nat, leased : Nat,
           result : {"none", "done", "ignored"}]
RowsTyped ==
    /\ status \in [Jobs -> Statuses]
    /\ attempts \in [Jobs -> 0..MaxAttempts]
    /\ claims \in [Jobs -> Nat] /\ leased \in [Jobs -> Nat]
    /\ \A j \in Jobs : leased[j] <= claims[j]
    /\ expired \in [Jobs -> BOOLEAN] /\ due \in [Jobs -> BOOLEAN]
    /\ ahead \subseteq Jobs \X Jobs
    /\ result \in [Jobs -> {"none", "done", "ignored", "reconciled"}]
    /\ effects \in [Jobs -> Nat] /\ reopens \in [Jobs -> Nat] /\ crashes \in Nat
WorkersTyped ==
    /\ pc \in [Workers -> {"idle", "drain", "lock", "run", "finish",
                           "recheck", "fail", "failForGood"}]
    /\ picked \in [Workers -> SUBSET Jobs]
    /\ claim \in [Workers -> Claims]
    /\ \A w \in Workers : claim[w].job = NoJob <=> pc[w] \in {"idle", "drain"}
TypeOK == RowsTyped /\ WorkersTyped /\ reopening \in [Callers -> SUBSET Jobs]

\* However often its row is claimed, timed out, retried or taken over after a
\* worker died, a planning job commits its plan exactly once, with the very
\* update that completes the row, and never when the row is ignored or failed
\* (process_job: "completion commits the plan too").
PlanExactlyOnce ==
    \A j \in PlanJobs :
        effects[j] = IF status[j] = "completed" /\ result[j] = "done" THEN 1 ELSE 0

\* While a lease is young, only the worker that holds it ends it: nobody else
\* takes, re-opens, fails or completes the row
\* (test_durable_jobs.py:59, "A live lease is never reset out from under its
\* holder").
LeaseEndedByHolder(j) ==
    status[j] = "running" /\ ~expired[j]
        /\ (status'[j] # "running" \/ leased'[j] # leased[j])
    => \E w \in Workers : claim[w].job = j /\ HoldsClaim(w) /\ claim'[w] = NoClaim

\* The redacted kinds keep that promise with any number of schedulers.
RedactedLeaseHeld == [][\A j \in Redacted : LeaseEndedByHolder(j)]_vars

\* A row that is offered to the pollers can be claimed: "pending" never hides
\* a row that has no attempt left, which claim_job would refuse for ever.
PendingIsClaimable(kinds) ==
    \A j \in kinds : status[j] = "pending" => attempts[j] < MaxAttempts

\* It holds of the redacted kinds, whose failures are checked against the claim.
RedactedPendingIsClaimable == PendingIsClaimable(Redacted)

\* It holds of every kind.
AllPendingIsClaimable == PendingIsClaimable(Jobs)

\* A row is "completed" only by work done since it was last opened: an answer
\* that belongs to the facts before a re-open never stands for the new ones.
CompletedMeansRun ==
    \A j \in Jobs \ PlanJobs :
        status[j] = "completed" /\ result[j] = "done" => effects[j] >= 1

\* Every enqueued row reaches a terminal status.
Terminates(j) == status[j] = "pending" ~> status[j] \in {"completed", "failed"}

\* The redacted kinds, whose last attempt has a recovery of its own, end
\* whatever dies (docs/workflow-automations.md:118, "expired leases recover
\* crashed workers").  A dead row of another kind in the same queue must not
\* keep them from it.
RedactedTerminates == \A j \in Redacted : Terminates(j)

\* Every kind ends (scheduler.py:606, "re-queues any that outlived those
\* retries, so the removal never silently stops").
EveryJobTerminates == \A j \in Jobs : Terminates(j)

\* How a planning row looks to the code that waits for its plan.
PlanOutcome(j) == CASE status[j] = "absent" -> "none"
                    [] status[j] \in {"pending", "running"} -> "open"
                    [] status[j] = "completed" -> result[j]
                    [] status[j] = "failed" -> "failed"

Contract == INSTANCE PlanningContract WITH
    Plans <- PlanJobs,
    outcome <- [j \in PlanJobs |-> PlanOutcome(j)],
    plan <- [j \in PlanJobs |-> effects[j]]

\* The whole queue, its two schedulers, crashes and retries, takes only steps
\* the planning contract allows.
ContractKept == Contract!Spec

\* And it decides every planning job in the end.
ContractKeptFairly == Contract!FairSpec
==============================================================================
