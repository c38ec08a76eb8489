---------------------------- MODULE WorkflowRuntime ----------------------------
(***************************************************************************)
(* One workflow run: a fixed plan of capability steps (workflow_runtime.py *)
(* and workflow_run_ledger.py), the durable jobs that carry it, the        *)
(* workers that execute them, and the person who resumes, cancels and      *)
(* reconciles it (workflow_run_reconciliation.py).                         *)
(*                                                                         *)
(* A worker's transaction is one action.  The checkpoints of a document    *)
(* step split its handler into several: each commits, which gives up every *)
(* lock, and then takes claim, run and step again.  Only the upload is     *)
(* itself an interval: the worker waits for the provider with the locks    *)
(* held, pc = "uploading".                                                 *)
(*                                                                         *)
(* run.version is left out: an expected version that is not the present    *)
(* one refuses the request, so every accepted request acts on the run as   *)
(* it is, and a key built from it is a job of its own.                     *)
(***************************************************************************)
EXTENDS Naturals, FiniteSets

CONSTANTS
    Length,       \* steps of the plan
    Plans,        \* the plans a run may be submitted with: the kind of each
                  \* step, and the steps that lack an input
    Workers,
    MaxJobs,      \* bound: jobs of this run, the first and one per resume
    MaxAttempts,  \* DurableJob.max_attempts
    MaxFaults     \* bound: deaths and exceptions

Steps == 1..Length
Jobs  == 1..MaxJobs

ASSUME PlanAssumption ==
    /\ Length \in 1..12
    /\ Plans \subseteq [kinds : [Steps -> {"read", "draft", "mail", "task"}],
                         asks : SUBSET Steps]
ASSUME BoundsAssumption ==
    /\ MaxJobs \in Nat \ {0} /\ MaxAttempts \in Nat \ {0}
    /\ MaxFaults \in Nat /\ Workers # {}

VARIABLES
    run,      \* [kinds, status, next, code]: the workflow_runs row; kinds is
              \* its immutable plan
    step,     \* [Steps -> the workflow_run_steps row]
    store,    \* [Steps -> status of the draft's DocumentStorageOperation]
    uploads,  \* [Steps -> uploads the provider was asked for]
    landed,   \* drafts of which the provider has an object
    review,   \* [Steps -> where the step's review task and delivery stand]
    job,      \* [Jobs -> [status, attempts]]
    pc,       \* [Workers -> where run_workflow_job stands]
    held,     \* [Workers -> the claim: job and its attempts]
    faults

runVars  == <<run, step, store>>
provider == <<uploads, landed>>
work     == <<job, pc, held, faults>>
vars     == <<runVars, provider, review, work>>

Kinds == run.kinds

Uncertain == {"writing", "provider_accepted", "ambiguous"}
Active    == {"queued", "running"}
Final     == {"completed", "cancelled", "failed"}
NoClaim   == [job |-> 0, attempts |-> 0]

TypeOK ==
    /\ run \in [kinds : {plan.kinds : plan \in Plans},
                status : Active \cup Final \cup {"awaiting_input",
                  "awaiting_review", "blocked", "reconciliation_required"},
                next : 1..(Length + 1),
                code : {"none", "resumable", "new_plan"}]
    /\ step \in [Steps -> [status : {"pending", "executing", "awaiting_input",
                               "awaiting_review", "blocked", "uncertain",
                               "completed"},
                           attempt : [job : 0..MaxJobs,
                                      attempts : 0..MaxAttempts],
                           input : BOOLEAN, result : BOOLEAN,
                           artifact : BOOLEAN, operation : BOOLEAN]]
    /\ store \in [Steps -> Uncertain \cup {"none", "linked"}]
    /\ uploads \in [Steps -> Nat] /\ landed \subseteq Steps
    /\ review \in [Steps -> {"none", "open", "approved", "changed", "revised",
                             "queued", "sent", "unknown", "failed"}]
    /\ job \in [Jobs -> [status : {"absent", "pending", "running",
                                   "completed", "failed"},
                         attempts : 0..MaxAttempts]]
    /\ pc \in [Workers -> {"idle", "begin", "identified", "fenced",
                           "uploading", "accepted", "returned", "raised"}]
    /\ held \in [Workers -> [job : 0..MaxJobs, attempts : 0..MaxAttempts]]
    /\ faults \in 0..MaxFaults

\* submit_run: the run, its steps and its first job commit together.
Init ==
    /\ \E plan \in Plans :
        /\ run = [kinds |-> plan.kinds, status |-> "queued", next |-> 1,
                  code |-> "none"]
        /\ step = [s \in Steps |-> [status |-> "pending", attempt |-> NoClaim,
                     input |-> s \notin plan.asks, result |-> FALSE,
                     artifact |-> FALSE, operation |-> FALSE]]
    /\ store = [s \in Steps |-> "none"]
    /\ uploads = [s \in Steps |-> 0] /\ landed = {}
    /\ review = [s \in Steps |-> "none"]
    /\ job = [j \in Jobs |-> [status |-> IF j = 1 THEN "pending" ELSE "absent",
                              attempts |-> 0]]
    /\ pc = [w \in Workers |-> "idle"] /\ held = [w \in Workers |-> NoClaim]
    /\ faults = 0

(***************************************************************************)
(* Locks and claims.  The rows of the run are locked for longer than one   *)
(* action only by a worker that waits for the provider.                    *)
(***************************************************************************)
Unlocked     == \A w \in Workers : pc[w] # "uploading"
JobFree(j)   == \A w \in Workers : pc[w] = "uploading" => held[w].job # j
Owns(w)      == /\ job[held[w].job].status = "running"
                /\ job[held[w].job].attempts = held[w].attempts
Goto(w, at)  == pc' = [pc EXCEPT ![w] = at] /\ UNCHANGED <<held, faults>>
Current      == run.next
AtEnd        == run.next \notin Steps

\* The lease of a running row is old: its worker is gone, or it has stood still
\* for fifteen minutes, which counts as a fault.
Held(j) == \E w \in Workers : pc[w] # "idle" /\ held[w].job = j /\ Owns(w)
LeaseIsOld(j) ==
    /\ job[j].status = "running" /\ JobFree(j)
    /\ IF Held(j) THEN faults < MaxFaults /\ faults' = faults + 1
                  ELSE UNCHANGED faults

\* claim_job on a pending row, or on a running one whose lease is old.
Claim(w, j) ==
    /\ pc[w] = "idle" /\ job[j].attempts < MaxAttempts
    /\ (job[j].status = "pending" /\ UNCHANGED faults) \/ LeaseIsOld(j)
    /\ job' = [job EXCEPT ![j] = [status |-> "running", attempts |-> @.attempts + 1]]
    /\ held' = [held EXCEPT ![w] = [job |-> j, attempts |-> job[j].attempts + 1]]
    /\ pc' = [pc EXCEPT ![w] = "begin"]
    /\ UNCHANGED <<runVars, provider, review>>

(***************************************************************************)
(* How an attempt pauses the run.                                          *)
(***************************************************************************)
\* Mutant: the step takes the run's status as it is.
StepStatusVerbatim(paused) == paused
StepStatus(paused) == IF paused = "reconciliation_required" THEN "uncertain"
                                                            ELSE paused

\* _pause.  Only what is read again is kept: of failure_code its class, while
\* the run is blocked; of attempt_id nothing, once the run is not running.
Pause(paused, code, row) ==
    /\ run' = [run EXCEPT !.status = paused,
                          !.code = IF paused = "blocked" THEN code ELSE "none"]
    /\ step' = [step EXCEPT ![Current] = [row EXCEPT
                  !.status = StepStatus(paused), !.attempt = NoClaim]]

\* The except branch: the operation is looked up by the artifact revision.
\* Mutant: every CapabilityError blocks, whatever the operation says.
RefuseBlindly(code) == Pause("blocked", code, step[Current]) /\ UNCHANGED store
Refuse(code) ==
    LET row == step[Current]
        known == row.artifact /\ store[Current] # "none" IN
    /\ Pause(IF known /\ store[Current] \in Uncertain
             THEN "reconciliation_required" ELSE "blocked", code,
             [row EXCEPT !.operation = @ \/ known])
    /\ UNCHANGED store

\* Mutant: the retry limit blocks the run without a look at the operation.
BlockExhaustedBlindly ==
    IF run.status \in Final \/ AtEnd THEN UNCHANGED <<run, step>>
    ELSE Pause("blocked", "resumable", step[Current])
\* Mutant: the retry limit does not ask whether the run has ended.
BlockEvenEnded ==
    IF AtEnd THEN run' = [run EXCEPT !.status = "completed"] /\ UNCHANGED step
    ELSE Pause(IF step[Current].operation /\ store[Current] \in Uncertain
               THEN "reconciliation_required" ELSE "blocked",
               "resumable", step[Current])
\* block_exhausted_run, for every run that has not ended, paused ones included.
BlockExhausted ==
    IF run.status \in Final THEN UNCHANGED <<run, step>>
    ELSE IF AtEnd THEN /\ run' = [run EXCEPT !.status = "completed"]
                       /\ UNCHANGED step
    ELSE Pause(IF step[Current].operation /\ store[Current] \in Uncertain
               THEN "reconciliation_required" ELSE "blocked",
               "resumable", step[Current])

(***************************************************************************)
(* run_workflow_job: one turn of its loop, up to the first commit.         *)
(***************************************************************************)
\* Mutant: an approval is taken for its delivery.
OutcomeOfApproval(s) ==
    CASE review[s] \in {"approved", "sent", "queued"} -> "completed"
      [] review[s] = "unknown" -> "reconciliation_required"
      [] review[s] \in {"failed", "changed", "revised"} -> "blocked"
      [] OTHER -> "awaiting_review"
\* _review_outcome: the current revision's approval, the human transition of a
\* plain task, or the newest delivery of the step's exact text.
ReviewOutcome(s) ==
    CASE review[s] \in {"approved", "sent"} -> "completed"
      [] review[s] = "unknown" -> "reconciliation_required"
      [] review[s] \in {"failed", "changed", "revised"} -> "blocked"
      [] OTHER -> "awaiting_review"

Advance(row) ==
    /\ run' = [run EXCEPT !.next = @ + 1]
    /\ step' = [step EXCEPT ![Current] = [row EXCEPT !.status = "completed"]]

Begin(w) == pc[w] = "begin" /\ Owns(w) /\ Unlocked

\* The run has ended or is paused: the job has nothing to do.
NothingToDo(w) ==
    /\ Begin(w) /\ run.status \notin Active
    /\ Goto(w, "returned") /\ UNCHANGED <<runVars, provider, review, job>>

Complete(w) ==
    /\ Begin(w) /\ run.status \in Active /\ AtEnd
    /\ run' = [run EXCEPT !.status = "completed"]
    /\ Goto(w, "returned") /\ UNCHANGED <<step, store, provider, review, job>>

\* Authority, bound sources, invalid arguments, or the handler refuse: some
\* of the codes let the person resume, the others ask for a new plan.
Refused(w) ==
    /\ Begin(w) /\ run.status \in Active /\ ~AtEnd
    /\ \E code \in {"resumable", "new_plan"} : Refuse(code)
    /\ Goto(w, "returned") /\ UNCHANGED <<provider, review, job>>

\* A step that has its result waits for the person, or is done.
Reviewed(w) ==
    /\ Begin(w) /\ run.status \in Active /\ ~AtEnd /\ step[Current].result
    /\ LET outcome == ReviewOutcome(Current) IN
       IF outcome = "completed"
       THEN Advance(step[Current]) /\ UNCHANGED pc
       ELSE /\ Pause(outcome, "new_plan", step[Current])
            /\ pc' = [pc EXCEPT ![w] = "returned"]
    /\ UNCHANGED <<store, provider, review, job, held, faults>>

Executes(w) == /\ Begin(w) /\ run.status \in Active /\ ~AtEnd
               /\ ~step[Current].result

MissingInput(w) ==
    /\ Executes(w) /\ ~step[Current].input
    /\ Pause("awaiting_input", "none", step[Current])
    /\ Goto(w, "returned") /\ UNCHANGED <<store, provider, review, job>>

\* A read capability: its result is evidence enough, the loop goes on.
Read(w) ==
    /\ Executes(w) /\ step[Current].input /\ Kinds[Current] = "read"
    /\ run' = [run EXCEPT !.status = "running", !.next = @ + 1]
    /\ step' = [step EXCEPT ![Current] = [@ EXCEPT !.status = "completed",
                                                   !.result = TRUE]]
    /\ UNCHANGED <<store, provider, review, work>>

\* propose_task and the message proposals: the task and the pause commit as
\* one transaction.
Propose(w) ==
    /\ Executes(w) /\ step[Current].input /\ Kinds[Current] \in {"mail", "task"}
    /\ Pause("awaiting_review", "none",
             [step[Current] EXCEPT !.result = TRUE])
    /\ review' = [review EXCEPT ![Current] = "open"]
    /\ Goto(w, "returned") /\ UNCHANGED <<store, provider, job>>

\* propose_matter_document up to "artifact_identity_checkpointed".
Identify(w) ==
    /\ Executes(w) /\ step[Current].input /\ Kinds[Current] = "draft"
    /\ run' = [run EXCEPT !.status = "running"]
    /\ step' = [step EXCEPT ![Current] = [@ EXCEPT !.status = "executing",
                                          !.attempt = held[w], !.artifact = TRUE]]
    /\ Goto(w, "identified") /\ UNCHANGED <<store, provider, review, job>>

(***************************************************************************)
(* The document handler between its checkpoints.                           *)
(***************************************************************************)
\* Mutant: the locks are taken again, but nobody asks what changed meanwhile.
StillOursUnasked(w) == TRUE
\* checkpoint: after its commit, run and attempt must still be the worker's.
StillOurs(w) == /\ run.status = "running" /\ ~AtEnd
                /\ step[Current].attempt = held[w]

Resumed(w, at) == pc[w] = at /\ Owns(w) /\ Unlocked

\* LostRunClaim from a checkpoint that finds the run cancelled or paused.
LoseRun(w) ==
    /\ \E at \in {"identified", "fenced", "accepted"} : Resumed(w, at)
    /\ ~StillOurs(w)
    /\ Goto(w, "raised") /\ UNCHANGED <<runVars, provider, review, job>>

\* Authority is asked again after each checkpoint; the materializer refuses.
RefusedMidway(w) ==
    /\ \E at \in {"identified", "fenced", "accepted"} : Resumed(w, at)
    /\ StillOurs(w)
    /\ \E code \in {"resumable", "new_plan"} : Refuse(code)
    /\ Goto(w, "returned") /\ UNCHANGED <<provider, review, job>>

\* Mutant: an operation left writing is started over.
StartableAgain(s) == store[s] \in {"none", "writing"}
Startable(s) == store[s] = "none"

\* Mutant: "writing" stays in the transaction that waits for the provider.
FenceInMemory(w) ==
    /\ Resumed(w, "identified") /\ StillOurs(w) /\ Startable(Current)
    /\ Goto(w, "fenced") /\ UNCHANGED <<runVars, provider, review, job>>
\* materialize of a new operation: "writing" commits before any provider I/O.
Fence(w) ==
    /\ Resumed(w, "identified") /\ StillOurs(w) /\ Startable(Current)
    /\ store' = [store EXCEPT ![Current] = "writing"]
    /\ step' = [step EXCEPT ![Current].operation = TRUE]
    /\ Goto(w, "fenced") /\ UNCHANGED <<run, provider, review, job>>

\* An earlier write may have reached the provider: CloudReconciliationRequired.
FindUncertain(w) ==
    /\ Resumed(w, "identified") /\ StillOurs(w)
    /\ store[Current] \in {"writing", "ambiguous"}
    /\ Refuse("new_plan")
    /\ Goto(w, "returned") /\ UNCHANGED <<provider, review, job>>

\* Still ours after the commit: the upload starts, with the locks held.
Upload(w) ==
    /\ Resumed(w, "fenced") /\ StillOurs(w)
    /\ uploads' = [uploads EXCEPT ![Current] = @ + 1]
    /\ Goto(w, "uploading") /\ UNCHANGED <<runVars, landed, review, job>>

\* The provider names the object: "cloud_provider_accepted" commits.
Accept(w) ==
    /\ pc[w] = "uploading"
    /\ landed' = landed \cup {Current}
    /\ store' = [store EXCEPT ![Current] = "provider_accepted"]
    /\ Goto(w, "accepted") /\ UNCHANGED <<run, step, uploads, review, job>>

\* Any other answer: the object may be there or not.
Unconfirmed(w) ==
    /\ pc[w] = "uploading"
    /\ landed' \in {landed, landed \cup {Current}}
    /\ store' = [store EXCEPT ![Current] = "ambiguous"]
    /\ Pause("reconciliation_required", "new_plan", step[Current])
    /\ Goto(w, "returned") /\ UNCHANGED <<uploads, review, job>>

\* The accepted object, of this attempt or of an earlier one.
Accepted(w) ==
    /\ StillOurs(w) /\ store[Current] = "provider_accepted"
    /\ \E at \in {"identified", "accepted"} : Resumed(w, at)

\* Read-back: the document is linked and the proposal waits for its review.
Link(w) ==
    /\ Accepted(w)
    /\ store' = [store EXCEPT ![Current] = "linked"]
    /\ Pause("awaiting_review", "none", [step[Current] EXCEPT !.result = TRUE])
    /\ review' = [review EXCEPT ![Current] = "open"]
    /\ Goto(w, "returned") /\ UNCHANGED <<provider, job>>

\* The bytes cannot be read back: a runtime upload is never compensated.
ReadbackFails(w) ==
    /\ Accepted(w)
    /\ store' = [store EXCEPT ![Current] = "ambiguous"]
    /\ Pause("reconciliation_required", "new_plan", step[Current])
    /\ Goto(w, "returned") /\ UNCHANGED <<provider, review, job>>

(***************************************************************************)
(* The end of a job: process_job.                                          *)
(***************************************************************************)
Idle(w) == /\ pc' = [pc EXCEPT ![w] = "idle"]
           /\ held' = [held EXCEPT ![w] = NoClaim] /\ UNCHANGED faults

Finish(w) ==
    /\ pc[w] = "returned" /\ Owns(w)
    /\ job' = [job EXCEPT ![held[w].job].status = "completed"]
    /\ Idle(w) /\ UNCHANGED <<runVars, provider, review>>

\* An exception rolls back; the claim is read again under its lock.
Retry(w) ==
    /\ pc[w] = "raised" /\ Owns(w) /\ held[w].attempts < MaxAttempts
    /\ job' = [job EXCEPT ![held[w].job].status = "pending"]
    /\ Idle(w) /\ UNCHANGED <<runVars, provider, review>>

GiveUp(w) ==
    /\ pc[w] = "raised" /\ Owns(w) /\ held[w].attempts = MaxAttempts /\ Unlocked
    /\ BlockExhausted
    /\ job' = [job EXCEPT ![held[w].job].status = "failed"]
    /\ Idle(w) /\ UNCHANGED <<store, provider, review>>

\* The claim was taken over: the worker changes nothing.
LoseClaim(w) ==
    /\ pc[w] \notin {"idle", "uploading"} /\ ~Owns(w)
    /\ Idle(w) /\ UNCHANGED <<runVars, provider, review, job>>

\* Mutant: the last attempt's lease expires and only the job is ended.
ExhaustJobOnly(j) ==
    /\ LeaseIsOld(j) /\ job[j].attempts = MaxAttempts /\ Unlocked
    /\ job' = [job EXCEPT ![j].status = "failed"]
    /\ UNCHANGED <<runVars, provider, review, pc, held>>
\* The lease of the last attempt has expired: a drain ends job and run.
Exhaust(j) ==
    /\ LeaseIsOld(j) /\ job[j].attempts = MaxAttempts /\ Unlocked
    /\ BlockExhausted
    /\ job' = [job EXCEPT ![j].status = "failed"]
    /\ UNCHANGED <<store, provider, review, pc, held>>

\* An exception or a death; either releases the locks and rolls back what is
\* not committed, and an upload under way may or may not have arrived.
Fault(w, at) ==
    /\ pc[w] # "idle" /\ faults < MaxFaults /\ faults' = faults + 1
    /\ IF pc[w] = "uploading" THEN landed' \in {landed, landed \cup {Current}}
                              ELSE UNCHANGED landed
    /\ pc' = [pc EXCEPT ![w] = at]
    /\ held' = IF at = "idle" THEN [held EXCEPT ![w] = NoClaim] ELSE held
    /\ UNCHANGED <<runVars, uploads, review, job>>

Die(w)   == Fault(w, "idle")
Raise(w) == pc[w] \notin {"returned", "raised"} /\ Fault(w, "raised")

(***************************************************************************)
(* The person.                                                             *)
(***************************************************************************)
\* queue_run: the version in the key makes it a job of its own.
QueueRun ==
    \E j \in Jobs :
        /\ job[j].status = "absent" /\ \A k \in 1..(j - 1) : job[k].status # "absent"
        /\ job' = [job EXCEPT ![j].status = "pending"]

Resume(supply) ==
    /\ Unlocked
    /\ run.status \in {"awaiting_input", "awaiting_review", "blocked"}
    /\ run.status = "blocked" => run.code = "resumable"
    /\ supply => run.status = "awaiting_input" /\ ~step[Current].input
    /\ run' = [run EXCEPT !.status = "queued", !.code = "none"]
    /\ step' = IF supply
               THEN [step EXCEPT ![Current].input = TRUE,
                                 ![Current].status = "pending"]
               ELSE step
    /\ QueueRun
    /\ UNCHANGED <<store, provider, review, pc, held, faults>>

Cancel ==
    /\ Unlocked /\ run.status \notin {"completed", "cancelled"}
    /\ run' = [run EXCEPT !.status = "cancelled", !.code = "none"]
    /\ UNCHANGED <<step, store, provider, review, work>>

\* reconcile_run: the person found the object, and its bytes verify.
Reconcile ==
    /\ Unlocked /\ run.status = "reconciliation_required" /\ ~AtEnd
    /\ step[Current].operation /\ ~step[Current].result
    /\ store[Current] \in Uncertain /\ Current \in landed
    /\ store' = [store EXCEPT ![Current] = "provider_accepted"]
    /\ step' = [step EXCEPT ![Current].status = "pending"]
    /\ run' = [run EXCEPT !.status = "queued", !.code = "none"]
    /\ QueueRun
    /\ UNCHANGED <<provider, review, pc, held, faults>>

(***************************************************************************)
(* The review task of a step, and the delivery TaskDelivery models.        *)
(***************************************************************************)
ReviewMoves(s) ==
    CASE Kinds[s] = "mail" ->
           {<<"open", "changed">>, <<"open", "queued">>, <<"queued", "sent">>,
            <<"queued", "failed">>, <<"queued", "unknown">>,
            <<"unknown", "sent">>, <<"unknown", "failed">>, <<"failed", "queued">>}
      [] Kinds[s] = "draft" ->
           {<<"open", "changed">>, <<"open", "approved">>, <<"approved", "revised">>}
      [] OTHER -> {<<"open", "approved">>}

HumanReview(s) ==
    /\ run.status \notin Final   \* afterwards nobody reads it for the run
    /\ \E move \in ReviewMoves(s) :
        /\ review[s] = move[1] /\ review' = [review EXCEPT ![s] = move[2]]
    /\ UNCHANGED <<runVars, provider, work>>

(***************************************************************************)
(* The specification.                                                      *)
(***************************************************************************)
Move(w) ==
    \/ NothingToDo(w) \/ Complete(w) \/ Refused(w) \/ Reviewed(w)
    \/ MissingInput(w) \/ Read(w) \/ Propose(w) \/ Identify(w)
    \/ LoseRun(w) \/ RefusedMidway(w) \/ Fence(w) \/ FindUncertain(w)
    \/ Upload(w) \/ Accept(w) \/ Unconfirmed(w) \/ Link(w) \/ ReadbackFails(w)
    \/ Finish(w) \/ Retry(w) \/ GiveUp(w) \/ LoseClaim(w)

Next ==
    \/ \E w \in Workers : Move(w) \/ Die(w) \/ Raise(w)
    \/ \E w \in Workers, j \in Jobs : Claim(w, j)
    \/ \E j \in Jobs : Exhaust(j)
    \/ \E supply \in BOOLEAN : Resume(supply)
    \/ Cancel \/ Reconcile
    \/ \E s \in Steps : HumanReview(s)

Spec == Init /\ [][Next]_vars

\* A worker that is alive goes on, and a scheduler drains the queue, rows whose
\* worker is gone included.
FairSpec ==
    /\ Spec
    /\ \A w \in Workers : WF_vars(Move(w))
    /\ \A j \in Jobs : WF_vars(\E w \in Workers : Claim(w, j) /\ UNCHANGED faults)
    /\ \A j \in Jobs : WF_vars(Exhaust(j) /\ UNCHANGED faults)

(***************************************************************************)
(* Properties.                                                             *)
(***************************************************************************)
\* The provider is asked to store a draft at most once, whatever dies, is
\* taken over, resumed or reconciled: a retry that finds "writing" or
\* "ambiguous" stops, and one that finds the receipt reads back.
OneUploadPerDraft == \A s \in Steps : uploads[s] <= 1

\* No upload without a committed trace: before the provider can have anything
\* the operation is "writing" and the step names it, so neither a death nor
\* the end of the retries can forget it.
UploadsLeaveATrace ==
    \A s \in Steps : uploads[s] > 0 => store[s] # "none" /\ step[s].operation

\* A draft whose outcome is uncertain holds its run: the run is under way,
\* asks for reconciliation or was cancelled.  It is never paused as a plain
\* refusal, waiting for a review, or past that step, whichever of the except
\* branch, the read-back and the retry limit ended the attempt.
UncertainWriteHoldsTheRun ==
    \A s \in Steps : store[s] \in Uncertain =>
        /\ run.next = s /\ ~step[s].result
        /\ run.status \in Active \cup {"reconciliation_required", "cancelled"}

\* The run goes past a proposal only on evidence of the person's decision:
\* an approved revision, a task put in progress, or a confirmed delivery.
\* Later steps have not been touched.
EvidenceBeforeNext ==
    \A s \in Steps :
        /\ s < run.next => /\ step[s].status = "completed"
                           /\ \/ Kinds[s] = "read"
                              \/ review[s] \in {"approved", "revised", "sent"}
        /\ s > run.next => ~step[s].artifact /\ ~step[s].result

\* Once a cancellation is answered nothing of the run moves any more and no
\* upload begins, although workers may stand between a checkpoint's commit
\* and its second look, or have taken the job over.
CancelStopsTheRun ==
    [][run.status = "cancelled" =>
          UNCHANGED <<runVars, uploads>>]_vars

\* What the triggers of migration 168 refuse is never tried, so that no worker
\* can fail on them again and again: an ended run and a completed step do not
\* change, the run advances by one step, which is completed, a result is
\* never taken back, and a completed run has completed all its steps.
GuardsNeverRefuse ==
    [][/\ run.status \in Final => run' = run
       /\ run'.next # run.next =>
             run'.next = run.next + 1 /\ step'[run.next].status = "completed"
       /\ \A s \in Steps :
            /\ step[s].status = "completed" => step'[s] = step[s]
            /\ step[s].result => step'[s].result
            /\ step'[s].status = "completed" => step'[s].result
       /\ run'.status = "completed" =>
             \A s \in Steps : step'[s].status = "completed"]_vars

\* A run that was queued or is running comes to a pause or to its end, by the
\* worker, by the retry limit or by the drain that finds the last lease
\* expired: nobody waits for a job that is no longer there.
RunSettles == run.status \in Active ~> run.status \notin Active
==============================================================================
