----------------------------- MODULE TaskDelivery -----------------------------
(***************************************************************************)
(* One task that carries a drafted client email: its approval, the         *)
(* delivery runs approvals queue (task_automation.py), and the workers     *)
(* that execute them under a durable job each.                             *)
(*                                                                         *)
(* Run r is the r-th row of task_automation_runs of the task; job r is the *)
(* durable job enqueued with it.  A job keeps of DurableJobs what delivery *)
(* depends on: a retry has attempts > 1, a lease can expire under a live   *)
(* worker, and this kind's failures are not checked against the claim.     *)
(*                                                                         *)
(* Row locks are not variables.  A worker holds the task's lock from its   *)
(* revalidation to its last commit, and the tenant settings' lock from the *)
(* moment it has checked them.  Two transactions that lock task and run in *)
(* opposite orders cost one of them an abort: InfraFailure, or no step.    *)
(*                                                                         *)
(* A lock is not a read.  The session keeps its Task object across the     *)
(* claim's commit (expire_on_commit is off) and the second SELECT ... FOR  *)
(* UPDATE does not ask to populate it again, so what a worker revalidates  *)
(* is the task as it was before the claim: work.draft.                     *)
(***************************************************************************)
EXTENDS Naturals

CONSTANTS
    Workers,
    Drafts,       \* contents a draft can have
    NoDraft,      \* pending_action is NULL
    Staged,       \* review_policy asks for a recorded attorney approval
    MaxAttempts,  \* DurableJob.max_attempts
    MaxRuns,      \* bound: approvals that queue a run
    MaxFaults     \* bound: worker deaths and infrastructure failures

ASSUME DeliveryAssumption ==
    /\ NoDraft \notin Drafts
    /\ Staged \in BOOLEAN
    /\ MaxAttempts \in Nat \ {0} /\ MaxRuns \in Nat \ {0} /\ MaxFaults \in Nat

Runs == 1..MaxRuns

VARIABLES
    task,       \* [status, draft, approved: staged_review_is_approved]
    enabled,    \* TenantSettings.enable_chat_actions
    made,       \* how many runs exist
    runs,       \* [Runs -> [draft, after, status, certainty]]
    jobs,       \* [Runs -> [status, attempts, expired]]
    pc,         \* [Workers -> where run_task_automation_job stands]
    work,       \* [Workers -> [run, attempt, draft: as last read, outcome]]
    taken,      \* [Runs -> messages the mail provider took for it]
    acked,      \* runs approved with the duplicate-delivery risk acknowledged
    reviewed,   \* contents an attorney approved in a staged review
    faults      \* bounded by MaxFaults

queueVars == <<made, runs, jobs>>
workerVars == <<pc, work>>
historyVars == <<taken, acked, reviewed>>
vars == <<task, enabled, queueVars, workerVars, historyVars, faults>>

\* "other" stands for every board column but Review and In Progress.
TaskStatuses == {"review", "in_progress", "other"}
NoRun == [draft |-> NoDraft, after |-> 0, status |-> "absent",
          certainty |-> "not_attempted"]
NoJob == [status |-> "absent", attempts |-> 0, expired |-> FALSE]
NoWork == [run |-> 0, attempt |-> 0, draft |-> NoDraft, outcome |-> "none"]

TaskFree == \A w \in Workers : pc[w] \notin {"settings", "send", "taken", "finish"}
SettingsFree == \A w \in Workers : pc[w] \notin {"send", "taken", "finish"}

(***************************************************************************)
(* Reviewers and administrators.  Each request is one transaction that     *)
(* holds the task's row lock (the settings' row lock for the switch).      *)
(***************************************************************************)
Active(r) == runs[r].status \in {"queued", "sending"}
LastFailed == made > 0 /\ runs[made].status = "failed"

\* Mutant: no acknowledgement asked for.
ApprovableUnasked(acknowledged) == \A r \in 1..made : ~Active(r)

Approvable(acknowledged) ==
    /\ \A r \in 1..made : ~Active(r)
    /\ LastFailed /\ runs[made].certainty = "outcome_unknown" => acknowledged

\* Mutant: a retry has the key of the attempt it retries.
RetryAfterNever == 0

\* The run a retry's approval key is derived from, 0 for a first attempt.
RetryAfter == IF LastFailed THEN made ELSE 0

\* enqueue_durable_automation: the run and its job, or nothing when an earlier
\* run already has this approval's key.
QueueRun(acknowledged) ==
    IF \E r \in 1..made : runs[r].draft = task.draft /\ runs[r].after = RetryAfter
    THEN UNCHANGED <<queueVars, acked>>
    ELSE /\ made' = made + 1
         /\ runs' = [runs EXCEPT ![made + 1] =
                        [draft |-> task.draft, after |-> RetryAfter,
                         status |-> "queued", certainty |-> "not_attempted"]]
         /\ jobs' = [jobs EXCEPT ![made + 1] = [NoJob EXCEPT !.status = "pending"]]
         /\ acked' = IF acknowledged THEN acked \cup {made + 1} ELSE acked

\* Review to In Progress by the transition or the patch endpoint.
Approve(acknowledged) ==
    /\ TaskFree /\ task.status = "review"
    /\ Staged => task.approved
    /\ task' = [task EXCEPT !.status = "in_progress"]
    /\ IF task.draft = NoDraft THEN UNCHANGED <<queueVars, acked>>
       ELSE made < MaxRuns /\ Approvable(acknowledged) /\ QueueRun(acknowledged)
    /\ UNCHANGED <<enabled, workerVars, taken, reviewed, faults>>

\* The assigned attorney's decision: it moves the task too, and has no way to
\* acknowledge an earlier delivery.
ApproveStaged ==
    /\ TaskFree /\ task.status = "review"
    /\ Staged /\ ~task.approved
    /\ task' = [task EXCEPT !.status = "in_progress", !.approved = TRUE]
    /\ IF task.draft = NoDraft THEN UNCHANGED <<queueVars, acked>>
       ELSE made < MaxRuns /\ Approvable(FALSE) /\ QueueRun(FALSE)
    /\ reviewed' = reviewed \cup ({task.draft} \ {NoDraft})
    /\ UNCHANGED <<enabled, workerVars, taken, faults>>

\* Any other move on the board.  Into In Progress it approves nothing.
MoveTask(to) ==
    /\ TaskFree /\ task.status # to
    /\ to = "in_progress" => task.status = "other" /\ (Staged => task.approved)
    /\ task' = [task EXCEPT !.status = to]
    /\ UNCHANGED <<enabled, queueVars, workerVars, historyVars, faults>>

\* Mutant: an edit keeps the staged decisions.
EditDraftKeepsReview(d) ==
    /\ TaskFree /\ task.status = "review" /\ task.draft # NoDraft
    /\ task' = [task EXCEPT !.draft = d]
    /\ UNCHANGED <<enabled, queueVars, workerVars, historyVars, faults>>

\* update_pending_action: only in Review; every staged decision falls.
EditDraft(d) ==
    /\ TaskFree /\ task.status = "review" /\ task.draft # NoDraft
    /\ task' = [task EXCEPT !.draft = d, !.approved = FALSE]
    /\ UNCHANGED <<enabled, queueVars, workerVars, historyVars, faults>>

SwitchChatActions ==
    /\ SettingsFree
    /\ enabled' = ~enabled
    /\ UNCHANGED <<task, queueVars, workerVars, historyVars, faults>>

(***************************************************************************)
(* The durable job around a delivery.                                      *)
(***************************************************************************)
Unclaimed(r) == \/ jobs[r].status = "pending"
                \/ jobs[r].status = "running" /\ jobs[r].expired

\* Mutant: the attempts are not counted against their limit.
StartAttemptAlways(w, r) ==
    /\ pc[w] = "idle" /\ Unclaimed(r)
    /\ jobs' = [jobs EXCEPT ![r] = [status |-> "running", expired |-> FALSE,
                                    attempts |-> jobs[r].attempts + 1]]
    /\ pc' = [pc EXCEPT ![w] = IF jobs[r].attempts = 0 THEN "begin" ELSE "check"]
    /\ work' = [work EXCEPT ![w] = [run |-> r, attempt |-> jobs[r].attempts + 1,
                                    draft |-> NoDraft, outcome |-> "none"]]
    /\ UNCHANGED <<task, enabled, made, runs, historyVars, faults>>

StartAttempt(w, r) ==
    /\ pc[w] = "idle" /\ Unclaimed(r) /\ jobs[r].attempts < MaxAttempts
    /\ jobs' = [jobs EXCEPT ![r] = [status |-> "running", expired |-> FALSE,
                                    attempts |-> jobs[r].attempts + 1]]
    /\ pc' = [pc EXCEPT ![w] = IF jobs[r].attempts = 0 THEN "begin" ELSE "check"]
    /\ work' = [work EXCEPT ![w] = [run |-> r, attempt |-> jobs[r].attempts + 1,
                                    draft |-> NoDraft, outcome |-> "none"]]
    /\ UNCHANGED <<task, enabled, made, runs, historyVars, faults>>

GoIdle(w) == /\ pc' = [pc EXCEPT ![w] = "idle"]
             /\ work' = [work EXCEPT ![w] = NoWork]

\* The handler returned: complete the job if the claim is still this worker's.
FinishJob(w) ==
    /\ pc[w] = "done"
    /\ LET r == work[w].run
           owned == jobs[r].status = "running" /\ jobs[r].attempts = work[w].attempt
       IN jobs' = IF owned THEN [jobs EXCEPT ![r].status = "completed",
                                             ![r].expired = FALSE]
                  ELSE jobs
    /\ GoIdle(w)
    /\ UNCHANGED <<task, enabled, made, runs, historyVars, faults>>

\* A database error, or an abort that ended a lock cycle, rolls the handler's
\* transaction back and fails the job, whoever holds its lease by now.  Inside
\* the provider call every exception is an outcome instead.
InfraFailure(w) ==
    /\ pc[w] \in {"check", "begin", "revalidate", "settings", "finish"}
    /\ faults < MaxFaults /\ faults' = faults + 1
    /\ \E seen \in {work[w].attempt, jobs[work[w].run].attempts} :
          jobs' = [jobs EXCEPT ![work[w].run].status =
                                  IF seen < MaxAttempts THEN "pending" ELSE "failed",
                               ![work[w].run].expired = FALSE]
    /\ GoIdle(w)
    /\ UNCHANGED <<task, enabled, made, runs, historyVars>>

Crash(w) ==
    /\ pc[w] # "idle"
    /\ faults < MaxFaults /\ faults' = faults + 1
    /\ GoIdle(w)
    /\ UNCHANGED <<task, enabled, queueVars, historyVars>>

LeaseExpires(r) ==
    /\ jobs[r].status = "running" /\ ~jobs[r].expired
    /\ jobs' = [jobs EXCEPT ![r].expired = TRUE]
    /\ UNCHANGED <<task, enabled, made, runs, workerVars, historyVars, faults>>

(***************************************************************************)
(* run_task_automation_job and run_task_automation.  authorized is what    *)
(* the lookup of the approver's live authority (and, before the claim, of  *)
(* the tenant's demo tier and of the action's handler) answers.            *)
(***************************************************************************)
GoTo(w, place) == /\ pc' = [pc EXCEPT ![w] = place] /\ UNCHANGED work

\* Mutant: an interrupted delivery is recorded as not attempted.
CheckInterruptedAsUnsent(w) ==
    /\ pc[w] = "check"
    /\ LET r == work[w].run IN
       \/ /\ runs[r].status = "sending" /\ TaskFree
          /\ runs' = [runs EXCEPT ![r].status = "failed"]
          /\ GoTo(w, "done")
       \/ runs[r].status # "sending" /\ GoTo(w, "begin") /\ UNCHANGED runs
    /\ UNCHANGED <<task, enabled, made, jobs, historyVars, faults>>

\* Mutant: a retry ends any run that is no longer queued.
CheckInterruptedAnyway(w) ==
    /\ pc[w] = "check"
    /\ LET r == work[w].run IN
       \/ /\ runs[r].status # "queued" /\ TaskFree
          /\ runs' = [runs EXCEPT ![r].status = "failed",
                                  ![r].certainty = "outcome_unknown"]
          /\ GoTo(w, "done")
       \/ runs[r].status = "queued" /\ GoTo(w, "begin") /\ UNCHANGED runs
    /\ UNCHANGED <<task, enabled, made, jobs, historyVars, faults>>

\* A retry that finds the run "sending" ends it without another send.
CheckInterrupted(w) ==
    /\ pc[w] = "check"
    /\ LET r == work[w].run IN
       \/ /\ runs[r].status = "sending" /\ TaskFree
          /\ runs' = [runs EXCEPT ![r].status = "failed",
                                  ![r].certainty = "outcome_unknown"]
          /\ GoTo(w, "done")
       \/ runs[r].status # "sending" /\ GoTo(w, "begin") /\ UNCHANGED runs
    /\ UNCHANGED <<task, enabled, made, jobs, historyVars, faults>>

\* Returns without a word: no staged approval, or no draft any more.
NothingToExecute == (Staged /\ ~task.approved) \/ task.draft = NoDraft

Ignore(w) ==
    /\ pc[w] = "begin" /\ TaskFree /\ NothingToExecute
    /\ GoTo(w, "done")
    /\ UNCHANGED <<task, enabled, queueVars, historyVars, faults>>

\* Mutant: a refused approval leaves its run as it was.
RecordNoSendNever(w, authorized) ==
    /\ pc[w] = "begin" /\ TaskFree /\ ~NothingToExecute
    /\ ~authorized \/ task.status # "in_progress" \/ ~enabled
    /\ GoTo(w, "done")
    /\ UNCHANGED <<task, enabled, queueVars, historyVars, faults>>

\* _record_terminal_no_send.
RecordNoSend(w, authorized) ==
    /\ pc[w] = "begin" /\ TaskFree /\ ~NothingToExecute
    /\ ~authorized \/ task.status # "in_progress" \/ ~enabled
    /\ runs' = LET r == work[w].run IN
               IF runs[r].status # "queued" THEN runs
               ELSE [runs EXCEPT ![r].status = "failed",
                                 ![r].certainty = "not_attempted"]
    /\ GoTo(w, "done")
    /\ UNCHANGED <<task, enabled, made, jobs, historyVars, faults>>

\* Mutant: a failed run can be claimed again.
ClaimRunAgain(w) ==
    /\ pc[w] = "begin" /\ TaskFree /\ ~NothingToExecute
    /\ task.status = "in_progress" /\ enabled
    /\ LET r == work[w].run IN
       /\ runs[r].status \in {"queued", "failed"}
       /\ runs' = [runs EXCEPT ![r].status = "sending",
                               ![r].certainty = "not_attempted"]
       /\ pc' = [pc EXCEPT ![w] = "revalidate"]
       /\ work' = [work EXCEPT ![w].draft = task.draft]
    /\ UNCHANGED <<task, enabled, made, jobs, historyVars, faults>>

\* _claim_run: the claim's commit releases the task's lock.
ClaimRun(w) ==
    /\ pc[w] = "begin" /\ TaskFree /\ ~NothingToExecute
    /\ task.status = "in_progress" /\ enabled
    /\ LET r == work[w].run IN
       \/ /\ runs[r].status = "queued"
          /\ runs' = [runs EXCEPT ![r].status = "sending",
                                  ![r].certainty = "not_attempted"]
          /\ pc' = [pc EXCEPT ![w] = "revalidate"]
          /\ work' = [work EXCEPT ![w].draft = task.draft]
       \/ runs[r].status # "queued" /\ GoTo(w, "done") /\ UNCHANGED runs
    /\ UNCHANGED <<task, enabled, made, jobs, historyVars, faults>>

\* The refusals after the claim set status and certainty on the run object the
\* claim loaded.  Only the status differs from what that object holds, so the
\* update leaves the certainty column to whoever wrote it last.
Refuse(w) == runs' = [runs EXCEPT ![work[w].run].status = "failed"]

\* Locks the task for good.  Its fields are those read before the claim, when
\* they were In Progress, drafted and approved; what is new is the approver's
\* authority and the comparison with the draft of the claimed run.
Revalidate(w, authorized) ==
    /\ pc[w] = "revalidate" /\ TaskFree
    /\ LET valid == authorized /\ work[w].draft = runs[work[w].run].draft
       IN IF valid THEN GoTo(w, "settings") /\ UNCHANGED runs
          ELSE GoTo(w, "done") /\ Refuse(w)
    /\ UNCHANGED <<task, enabled, made, jobs, historyVars, faults>>

\* Mutant: the switch is not looked at again.
CheckSettingsNever(w) ==
    /\ pc[w] = "settings" /\ SettingsFree
    /\ GoTo(w, "send")
    /\ UNCHANGED <<task, enabled, queueVars, historyVars, faults>>

\* Locks the switch: it cannot be thrown before the attempt has ended.
CheckSettings(w) ==
    /\ pc[w] = "settings" /\ SettingsFree
    /\ \/ enabled /\ GoTo(w, "send") /\ UNCHANGED runs
       \/ ~enabled /\ GoTo(w, "done") /\ Refuse(w)
    /\ UNCHANGED <<task, enabled, made, jobs, historyVars, faults>>

\* The mail provider takes the message; the answer is still to come.
ProviderTakes(w) ==
    /\ pc[w] = "send"
    /\ taken' = [taken EXCEPT ![work[w].run] = @ + 1]
    /\ GoTo(w, "taken")
    /\ UNCHANGED <<task, enabled, queueVars, acked, reviewed, faults>>

\* _run_email_client returns.  "not_attempted" is a binding that no longer
\* holds, or a provider that refused; a lost answer or an exception is unknown.
HandlerReturns(w) ==
    /\ \E result \in IF pc[w] = "send" THEN {"not_attempted", "outcome_unknown"}
                     ELSE {"confirmed_sent", "outcome_unknown"} :
          work' = [work EXCEPT ![w].outcome = result]
    /\ pc[w] \in {"send", "taken"}
    /\ pc' = [pc EXCEPT ![w] = "finish"]
    /\ UNCHANGED <<task, enabled, queueVars, historyVars, faults>>

\* The outcome, the cleared draft and the end of both locks commit together.
RecordOutcome(w) ==
    /\ pc[w] = "finish"
    /\ LET r == work[w].run
           sent == work[w].outcome = "confirmed_sent"
       IN /\ runs' = [runs EXCEPT ![r].status = IF sent THEN "sent" ELSE "failed",
                                  ![r].certainty = work[w].outcome]
          /\ task' = IF sent THEN [task EXCEPT !.draft = NoDraft] ELSE task
    /\ GoTo(w, "done")
    /\ UNCHANGED <<enabled, made, jobs, historyVars, faults>>

------------------------------------------------------------------------------
\* A drafted task waits in Review.
Init ==
    /\ task \in [status : {"review"}, draft : Drafts, approved : {FALSE}]
    /\ enabled = TRUE
    /\ made = 0
    /\ runs = [r \in Runs |-> NoRun]
    /\ jobs = [r \in Runs |-> NoJob]
    /\ pc = [w \in Workers |-> "idle"]
    /\ work = [w \in Workers |-> NoWork]
    /\ taken = [r \in Runs |-> 0]
    /\ acked = {} /\ reviewed = {}
    /\ faults = 0

DeliveryStep(w) ==
    \/ CheckInterrupted(w) \/ Ignore(w) \/ ClaimRun(w)
    \/ \E authorized \in BOOLEAN : RecordNoSend(w, authorized) \/ Revalidate(w, authorized)
    \/ CheckSettings(w) \/ ProviderTakes(w) \/ HandlerReturns(w)
    \/ RecordOutcome(w) \/ FinishJob(w)

WorkerStep(w) == DeliveryStep(w) \/ \E r \in Runs : StartAttempt(w, r)

RequestStep ==
    \/ \E acknowledged \in BOOLEAN : Approve(acknowledged)
    \/ ApproveStaged
    \/ \E to \in TaskStatuses : MoveTask(to)
    \/ \E d \in Drafts : EditDraft(d)
    \/ SwitchChatActions

Next == \/ \E w \in Workers : WorkerStep(w) \/ InfraFailure(w) \/ Crash(w)
        \/ \E r \in Runs : LeaseExpires(r)
        \/ RequestStep

Spec == Init /\ [][Next]_vars

\* The scheduler keeps polling and time passes; nobody has to do anything.
FairSpec == /\ Spec
            /\ \A w \in Workers : WF_vars(WorkerStep(w))
            /\ \A r \in Runs : WF_vars(LeaseExpires(r))

------------------------------------------------------------------------------
(***************************************************************************)
(* Properties.                                                             *)
(***************************************************************************)

Contents == Drafts \cup {NoDraft}
TaskType == [status : TaskStatuses, draft : Contents, approved : BOOLEAN]
RunStatuses == {"absent", "queued", "sending", "sent", "failed"}
Certainties == {"not_attempted", "outcome_unknown", "confirmed_sent"}
RunType == [draft : Contents, after : 0..MaxRuns,
            status : RunStatuses, certainty : Certainties]
JobType == [status : {"absent", "pending", "running", "completed", "failed"},
            attempts : 0..MaxAttempts, expired : BOOLEAN]
WorkType == [run : 0..MaxRuns, attempt : 0..MaxAttempts, draft : Contents,
             outcome : {"none"} \cup Certainties]
Places == {"idle", "check", "begin", "revalidate", "settings", "send", "taken",
           "finish", "done"}

\* Every task, run, job and worker is in a state the code knows.
TypeOK ==
    /\ task \in TaskType /\ enabled \in BOOLEAN
    /\ made \in 0..MaxRuns /\ faults \in 0..MaxFaults
    /\ runs \in [Runs -> RunType] /\ jobs \in [Runs -> JobType]
    /\ pc \in [Workers -> Places] /\ work \in [Workers -> WorkType]
    /\ taken \in [Runs -> Nat]
    /\ acked \subseteq Runs /\ reviewed \subseteq Drafts

\* One approval sends at most one message, whatever is retried, taken over
\* from a dead worker, or still running on an expired lease ("Execute an
\* approved task's pending action, at most once").
OneMessagePerApproval == \A r \in Runs : taken[r] <= 1

\* What a run says of its delivery is so: "sent" was sent, and a failure that
\* claims no attempt reached nobody.
RecordIsTruthful ==
    \A r \in Runs :
        /\ runs[r].status = "sent" => taken[r] = 1
        /\ runs[r].status = "failed" /\ runs[r].certainty = "not_attempted"
              => taken[r] = 0

\* While a message is on its way the task stands where the approval put it,
\* with the approved text and its staged approval: a withdrawal or an edit
\* either came before the send, which then does not happen, or waits for its
\* outcome (task_automation.py:1309, "validate the current state immediately
\* before the external side effect").
SendIsApproved ==
    \A w \in Workers : pc[w] \in {"send", "taken"} =>
        /\ task.status = "in_progress"
        /\ task.draft = runs[work[w].run].draft
        /\ Staged => task.approved

\* No message leaves while chat actions are switched off ("an admin disable
\* either wins before this lock (no send) or waits until this attempt finishes").
SwitchIsObeyed == \A w \in Workers : pc[w] \in {"send", "taken"} => enabled

\* In a staged task nothing is queued for delivery but text an attorney
\* approved as it stands (reset_staged_review_after_edit: "Invalidate every
\* staged-review decision after artifact content changes").
StagedTextWasReviewed ==
    Staged => \A r \in Runs : runs[r].status # "absent" => runs[r].draft \in reviewed

\* Every approval of a draft leaves a run that is its own: it is never
\* absorbed by the key of an earlier one ("there is no window in which a task
\* is approved but the send is unrecorded").
ApprovalIsRecorded ==
    [][task.status = "review" /\ task'.status = "in_progress" /\ task.draft # NoDraft
       => made' = made + 1 /\ runs'[made'].draft = task.draft]_vars

\* A client gets the task's message twice only if, in between, someone
\* acknowledged that it might happen.
DuplicatesAcknowledged ==
    \A i, j \in Runs : i < j /\ taken[i] > 0 /\ taken[j] > 0 =>
        \E k \in acked : i < k /\ k <= j

\* What the board says of a run, to whoever approves or reads.
WordOn(r) ==
    LET run == runs[r] IN
    CASE run.status = "absent" -> "none"
      [] run.status \in {"queued", "sending"} -> "open"
      [] run.status = "sent" -> "sent"
      [] OTHER -> IF run.certainty = "not_attempted" THEN "unsent" ELSE "unknown"

Contract == INSTANCE DeliveryContract
            WITH MaxApprovals <- MaxRuns, word <- [r \in Runs |-> WordOn(r)],
                 letters <- taken, risk <- acked

\* The delivery implements its contract: whoever writes last, a dead worker's
\* successor or the worker itself on an expired lease, a run's word of "sent" or
\* "failed, not attempted" is never taken back, and an approval follows such a
\* word or an acknowledged unknown (task_automation.py:1787, "Make an abandoned
\* sending claim terminal without another send").
WordIsKept == Contract!Spec

\* Every queued run comes to a terminal status, so that the next approval is
\* not refused for ever because "an earlier delivery is still queued".
RunsEnd == \A r \in Runs : Active(r) ~> runs[r].status \in {"sent", "failed"}
==============================================================================
