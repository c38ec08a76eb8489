------------------------------ MODULE SmsDelivery ------------------------------
(***************************************************************************)
(* Text messages to a client (sms.py): the reservation and the one         *)
(* dispatch of a message, the provider's answer and its signed callbacks,  *)
(* the sweep for stale dispatches, an operator's reconciliation, and the   *)
(* task whose approvals ask for the messages (task_automation.py) or the   *)
(* request handlers that post one message under the same idempotency key.  *)
(*                                                                         *)
(* Message m is the row of the m-th idempotency key; when a task asks, run *)
(* m is the task_automation_runs row of its m-th approved draft, and every *)
(* approved draft has a key of its own.  Each action is one transaction    *)
(* under the row locks of the message and of its run.  The call to the     *)
(* provider is a step of its own, made with no lock held.                  *)
(*                                                                         *)
(* Leases are real time (two minutes for a dispatch, fifteen for a job,    *)
(* thirty before a submission is overdue): they run out at any moment.     *)
(*                                                                         *)
(* The provider is external.  What it has said of a message only grows and *)
(* each status may be delivered to the webhook late, twice or never.       *)
(***************************************************************************)
EXTENDS Naturals

CONSTANTS
    Senders,      \* durable job workers, or handlers of the same request
    MaxMessages,  \* bound: drafts approved for the task
    MaxFaults     \* bound: senders that die

ASSUME SmsAssumption == MaxMessages \in Nat \ {0} /\ MaxFaults \in Nat

Messages == 1..MaxMessages

VARIABLES
    origin,   \* who asks for the messages: "task" or "request"
    task,     \* the task's status
    made,     \* how many drafts have been approved
    run,      \* [Messages -> task_automation_runs row]
    msg,      \* [Messages -> sms_messages row]
    said,     \* [Messages -> statuses the provider has given its message]
    posts,    \* [Messages -> requests for it that went out]
    pc,       \* [Senders -> where send_sms, or the job around it, stands]
    work,     \* [Senders -> [m, answer, outcome]]
    faults    \* bounded by MaxFaults

taskVars == <<origin, task, made>>
provider == <<said, posts>>
senders == <<pc, work>>
vars == <<taskVars, run, msg, provider, senders, faults>>

(***************************************************************************)
(* Statuses.  "queued" stands for the provider's queued, accepted and      *)
(* sending; "failed" for its failed and undelivered.  Of a message,        *)
(* "blocked" stands for the five blocked_* statuses, "rejected" for        *)
(* provider_failed and "failed" for provider_failed_after_acceptance.      *)
(***************************************************************************)
Statuses == {"queued", "sent", "delivered", "read", "failed"}
Final == {"delivered", "read", "failed"}

RankOf == [none |-> 0, queued |-> 10, sent |-> 40, delivered |-> 50, read |-> 60,
           failed |-> 70]
Rank(status) == RankOf[status]

TransitionAllowed(current, incoming) ==
    /\ incoming # current
    /\ IF current \in Final THEN current = "delivered" /\ incoming = "read"
                            ELSE Rank(incoming) >= Rank(current)

MessageStatus(status) == CASE status \in {"delivered", "read"} -> "delivered"
                           [] status = "failed" -> "failed"
                           [] OTHER -> "submitted"

\* Mutant: the run is given the message's word for it.
RunStatusVerbatim(status) == MessageStatus(status)

RunStatus(status) == CASE status \in {"delivered", "read"} -> "sent"
                       [] OTHER -> MessageStatus(status)
CertaintyOf(status) == CASE status \in {"delivered", "read"} -> "confirmed_sent"
                         [] status = "failed" -> "provider_failed_after_acceptance"
                         [] OTHER -> "provider_accepted"

\* sid: provider_message_id is recorded.  reconcile: which of the two
\* reconciliation times are set.
NoMessage == [status |-> "none", provider |-> "none", sid |-> FALSE,
              reconcile |-> "no"]
NoRun == [status |-> "absent", certainty |-> "not_attempted",
          required |-> FALSE, bound |-> FALSE]

Unresolved(m) == msg[m].reconcile = "required"
HasRun(m) == run[m].status # "absent"

\* What the provider says of m now.
Latest(m) == CHOOSE s \in said[m] : \A t \in said[m] : Rank(t) <= Rank(s)

\* What send_sms returns, or the SmsError it raises: named when it carries
\* the message's id.
Outcome(certainty, named, required) ==
    [certainty |-> certainty, named |-> named, required |-> required]
NoOutcome == Outcome("none", FALSE, FALSE)
NotAttempted == Outcome("not_attempted", FALSE, FALSE)
Unknown == Outcome("outcome_unknown", TRUE, TRUE)
NoWork == [m |-> 1, answer |-> "none", outcome |-> NoOutcome]

(***************************************************************************)
(* Both sides of an unknown outcome, written in one transaction.           *)
(***************************************************************************)
MarkUnknown(m, sid, status) ==
    msg' = [msg EXCEPT ![m] = [status |-> "provider_unknown", provider |-> status,
                               sid |-> sid, reconcile |-> "required"]]

\* Mutant: the run in flight is not found.
KeepEvidenceUnbound(m) == UNCHANGED run

\* _ensure_unknown_delivery_evidence: the run is found by its key even when
\* it does not know the message yet.
KeepEvidence(m) ==
    run' = IF ~HasRun(m) THEN run
           ELSE [run EXCEPT ![m] = [status |-> "failed", certainty |-> "outcome_unknown",
                                    required |-> TRUE, bound |-> TRUE]]

\* A message's provider status, and what follows from it, reaches its run too.
Learn(m, status) ==
    /\ msg' = [msg EXCEPT ![m] =
                  [status |-> MessageStatus(status), provider |-> status, sid |-> TRUE,
                   reconcile |-> IF msg[m].reconcile = "no" THEN "no" ELSE "resolved"]]
    /\ run' = IF ~HasRun(m) THEN run
              ELSE [run EXCEPT ![m] = [status |-> RunStatus(status),
                                       certainty |-> CertaintyOf(status),
                                       required |-> FALSE, bound |-> TRUE]]

(***************************************************************************)
(* The task: approvals, moves and the cancellation gate.                   *)
(***************************************************************************)
LatestRun == IF made = 0 THEN NoRun ELSE run[made]

\* enqueue_durable_automation for a new draft: a draft that was approved
\* before is refused whatever became of it.
Approve ==
    /\ origin = "task" /\ task = "review" /\ made < MaxMessages
    /\ \A m \in 1..made : run[m].status \notin {"queued", "sending", "submitted"}
    /\ LatestRun.status = "failed" => ~LatestRun.required
    /\ made' = made + 1 /\ task' = "in_progress"
    /\ run' = [run EXCEPT ![made + 1].status = "queued"]
    /\ UNCHANGED <<origin, msg, provider, senders, faults>>

\* Withdrawn or reopened on the board.  Back in Review a new draft is to come;
\* reopening straight into In Progress approves nothing.
MoveTask(to) ==
    /\ task \in {"in_progress", "cancelled"} \ {to}
    /\ task' = to
    /\ UNCHANGED <<origin, made, run, msg, provider, senders, faults>>

\* Mutant: a claimed dispatch has not crossed yet.
DispatchCrossedLate(r) ==
    \/ r.status \in {"submitted", "sent"}
    \/ r.required
    \/ r.certainty # "not_attempted"

DispatchCrossed(r) ==
    \/ r.status \in {"sending", "submitted", "sent"}
    \/ r.required
    \/ r.certainty # "not_attempted"

\* require_sms_cancellation_is_truthful looks at the latest run; a queued one
\* has not crossed.
Cancel ==
    /\ origin = "task" /\ task \in {"review", "in_progress"}
    /\ ~DispatchCrossed(LatestRun)
    /\ task' = "cancelled"
    /\ UNCHANGED <<origin, made, run, msg, provider, senders, faults>>

(***************************************************************************)
(* The delivery job of a run.                                              *)
(***************************************************************************)
GoTo(s, place) == pc' = [pc EXCEPT ![s] = place] /\ UNCHANGED work
Answer(s, outcome) ==
    /\ pc' = [pc EXCEPT ![s] = IF origin = "task" THEN "finish" ELSE "done"]
    /\ work' = [work EXCEPT ![s].outcome = outcome]

\* The claim commits, and so does the transaction that revalidates it: the
\* provider is called without the task's lock.
ClaimRun(s, m) ==
    /\ pc[s] = "idle" /\ run[m].status = "queued"
    /\ task = "in_progress"
    /\ run' = [run EXCEPT ![m].status = "sending"]
    /\ pc' = [pc EXCEPT ![s] = "lookup"]
    /\ work' = [work EXCEPT ![s] = [NoWork EXCEPT !.m = m]]
    /\ UNCHANGED <<taskVars, msg, provider, faults>>

\* _record_terminal_no_send: the approval was superseded, or its approver or
\* the tenant may not send any more.
RefuseRun(s, m) ==
    /\ pc[s] = "idle" /\ run[m].status = "queued"
    /\ run' = [run EXCEPT ![m].status = "failed"]
    /\ UNCHANGED <<taskVars, msg, provider, senders, faults>>

\* Mutant: the answer is always written, as for any other action.
TruthAlreadyWonNever(s) == FALSE

\* signed_sms_truth_already_won.
TruthAlreadyWon(s) ==
    LET r == run[work[s].m]
    IN work[s].outcome.named /\ r.bound /\ r.status \in {"submitted", "sent", "failed"}

RecordOutcome(s) ==
    /\ pc[s] = "finish"
    /\ LET out == work[s].outcome
       IN run' = IF TruthAlreadyWon(s) THEN run
                 ELSE [run EXCEPT ![work[s].m] =
                          [status |-> IF out.certainty = "provider_accepted"
                                      THEN "submitted" ELSE "failed",
                           certainty |-> out.certainty, required |-> out.required,
                           bound |-> out.named]]
    /\ pc' = [pc EXCEPT ![s] = "idle"]
    /\ work' = [work EXCEPT ![s] = NoWork]
    /\ UNCHANGED <<taskVars, msg, provider, faults>>

\* _terminalize_interrupted_delivery: the job was taken over, because its
\* worker died or outlived its lease.
Terminalize(m) ==
    /\ run[m].status = "sending"
    /\ run' = [run EXCEPT ![m].status = "failed", ![m].certainty = "outcome_unknown"]
    /\ UNCHANGED <<taskVars, msg, provider, senders, faults>>

\* A handler that posts the message, for the first time or again.
Post(s) ==
    /\ origin = "request" /\ pc[s] \in {"idle", "done"}
    /\ pc' = [pc EXCEPT ![s] = "lookup"]
    /\ work' = [work EXCEPT ![s] = NoWork]
    /\ UNCHANGED <<taskVars, run, msg, provider, faults>>

\* The process dies; its transaction, if it has one, is rolled back.
Crash(s) ==
    /\ pc[s] \notin {"idle", "done"}
    /\ faults < MaxFaults /\ faults' = faults + 1
    /\ pc' = [pc EXCEPT ![s] = "idle"]
    /\ work' = [work EXCEPT ![s] = NoWork]
    /\ UNCHANGED <<taskVars, run, msg, provider>>

(***************************************************************************)
(* send_sms.                                                               *)
(***************************************************************************)
\* Authorization, consent, configuration or the draft's bindings do not hold
\* any more; the message, if there is one, is neither read nor changed.
Refuse(s) ==
    /\ pc[s] \in {"lookup", "replay"}
    /\ Answer(s, NotAttempted)
    /\ UNCHANGED <<taskVars, run, msg, provider, faults>>

\* An exception before the request went out.
Fail(s) ==
    /\ pc[s] \in {"lookup", "replay", "fence"}
    /\ faults < MaxFaults /\ faults' = faults + 1
    /\ Answer(s, Outcome("outcome_unknown", FALSE, FALSE))
    /\ UNCHANGED <<taskVars, run, msg, provider>>

\* Mutant: a message whose outcome is unknown is dispatched again.
ReserveUnknown(s) ==
    /\ pc[s] = "lookup"
    /\ IF msg[work[s].m].status \in {"none", "provider_unknown"}
       THEN /\ msg' = [msg EXCEPT ![work[s].m].status = "dispatching"]
            /\ GoTo(s, "fence")
       ELSE GoTo(s, "replay") /\ UNCHANGED msg
    /\ UNCHANGED <<taskVars, run, provider, faults>>

\* Under the tenant's admission lock, which is held from the lookup of the key
\* to the commit of the row as dispatching: nobody can insert the key between
\* the two, so the unique constraint never has to decide.
Reserve(s) ==
    /\ pc[s] = "lookup"
    /\ IF msg[work[s].m] = NoMessage
       THEN /\ msg' = [msg EXCEPT ![work[s].m].status = "dispatching"]
            /\ GoTo(s, "fence")
       ELSE GoTo(s, "replay") /\ UNCHANGED msg
    /\ UNCHANGED <<taskVars, run, provider, faults>>

\* The last look before the request: the row must still be dispatching, and
\* suppression, consent, quiet hours, configuration and authorization hold.  A
\* contact that has disappeared rolls back to the bare reservation.
Fence(s) ==
    /\ pc[s] = "fence"
    /\ LET m == work[s].m IN
       \/ /\ msg[m].status # "dispatching"
          /\ Answer(s, Unknown) /\ UNCHANGED msg
       \/ /\ msg[m].status = "dispatching"
          /\ \/ GoTo(s, "post") /\ UNCHANGED msg
             \/ /\ msg' = [msg EXCEPT ![m].status = "blocked"]
                /\ Answer(s, Outcome("not_attempted", TRUE, FALSE))
             \/ Answer(s, NotAttempted) /\ UNCHANGED msg
    /\ UNCHANGED <<taskVars, run, provider, faults>>

\* The request reaches the provider, which takes the message (and may fail it
\* at once) or rejects it.
Submit(s) ==
    /\ pc[s] = "post"
    /\ LET m == work[s].m IN
       /\ posts' = [posts EXCEPT ![m] = @ + 1]
       /\ \E answer \in {"queued", "failed", "rejected"} :
             /\ said' = IF answer = "rejected" THEN said
                        ELSE [said EXCEPT ![m] = @ \cup {answer}]
             /\ work' = [work EXCEPT ![s].answer = answer]
    /\ pc' = [pc EXCEPT ![s] = "posted"]
    /\ UNCHANGED <<taskVars, run, msg, faults>>

\* The re-fence: the row is still this attempt's dispatch.
StillDispatching(s) == pc[s] = "posted" /\ msg[work[s].m].status = "dispatching"

RecordAnswer(s) ==
    /\ StillDispatching(s)
    /\ LET m == work[s].m
           answer == work[s].answer
       IN IF answer = "rejected"
          THEN /\ msg' = [msg EXCEPT ![m].status = "rejected"]
               /\ Answer(s, Outcome("provider_rejected", TRUE, FALSE))
          ELSE /\ msg' = [msg EXCEPT ![m].status = MessageStatus(answer),
                                     ![m].provider = answer, ![m].sid = TRUE]
               /\ Answer(s, Outcome(CertaintyOf(answer), TRUE, FALSE))
    /\ UNCHANGED <<taskVars, run, provider, faults>>

\* Mutant: an answer that was lost counts as a rejection.
LoseAnswerAsRejected(s) ==
    /\ StillDispatching(s)
    /\ msg' = [msg EXCEPT ![work[s].m].status = "rejected"]
    /\ Answer(s, Outcome("provider_rejected", TRUE, FALSE))
    /\ UNCHANGED <<taskVars, run, provider, faults>>

\* A lost or ambiguous answer, or a failed commit: _persist_unknown_dispatch,
\* with the message id, and a status that is known or not, if the answer gave
\* them.  It may fail in its turn.
LoseAnswer(s) ==
    /\ StillDispatching(s)
    /\ LET m == work[s].m
           answer == work[s].answer
       IN \/ /\ \/ MarkUnknown(m, FALSE, "none")
                \/ /\ answer # "rejected"
                   /\ \E status \in {answer, "none"} : MarkUnknown(m, TRUE, status)
             /\ KeepEvidence(m)
          \/ UNCHANGED <<msg, run>>
    /\ Answer(s, Unknown)
    /\ UNCHANGED <<taskVars, provider, faults>>

\* Someone declared the dispatch unknown meanwhile; the answer is dropped, and
\* the message's id with it.
LoseDispatch(s) ==
    /\ pc[s] = "posted" /\ ~StillDispatching(s)
    /\ Answer(s, Unknown)
    /\ UNCHANGED <<taskVars, run, msg, provider, faults>>

\* _resolve_replay waits for a dispatch in flight, fifteen seconds at most.
AwaitWinner(s) ==
    /\ pc[s] = "replay"
    /\ msg[work[s].m].status = "dispatching"
    /\ Answer(s, Outcome("outcome_unknown", TRUE, FALSE))
    /\ UNCHANGED <<taskVars, run, msg, provider, faults>>

\* The replay finds the dispatch older than its lease.
ReplayExpired(s) ==
    /\ pc[s] = "replay"
    /\ msg[work[s].m].status = "dispatching"
    /\ MarkUnknown(work[s].m, FALSE, "none") /\ KeepEvidence(work[s].m)
    /\ Answer(s, Unknown)
    /\ UNCHANGED <<taskVars, provider, faults>>

\* _terminal_replay.
Replayed(m) ==
    CASE msg[m].status \in {"submitted", "delivered"} -> "provider_accepted"
      [] msg[m].status = "rejected" -> "provider_rejected"
      [] msg[m].status = "failed" -> "provider_failed_after_acceptance"
      [] msg[m].status = "blocked" -> "not_attempted"
      [] OTHER -> "outcome_unknown"

Replay(s) ==
    /\ pc[s] = "replay"
    /\ LET m == work[s].m
           unknown == msg[m].status = "provider_unknown" \/ Unresolved(m)
       IN /\ msg[m].status # "dispatching"
          /\ Answer(s, IF unknown THEN Unknown ELSE Outcome(Replayed(m), TRUE, FALSE))
    /\ UNCHANGED <<taskVars, run, msg, provider, faults>>

(***************************************************************************)
(* The scheduler's sweep, the webhook and the operator.                    *)
(***************************************************************************)
\* Mutant: dispatches are left to whoever replays them.
SweepSubmitted(m) ==
    /\ msg[m].status = "submitted" /\ msg[m].reconcile = "no"
    /\ msg' = [msg EXCEPT ![m].reconcile = "required"] /\ UNCHANGED run
    /\ UNCHANGED <<taskVars, provider, senders, faults>>

\* mark_stale_sms_dispatches_for_reconciliation: a dispatch whose lease ran
\* out, or a submission the provider has been silent about.
Sweep(m) ==
    /\ \/ /\ msg[m].status = "dispatching"
          /\ MarkUnknown(m, FALSE, "none") /\ KeepEvidence(m)
       \/ /\ msg[m].status = "submitted" /\ msg[m].reconcile = "no"
          /\ msg' = [msg EXCEPT ![m].reconcile = "required"] /\ UNCHANGED run
    /\ UNCHANGED <<taskVars, provider, senders, faults>>

\* The provider moves the message on.
ProviderMoves(m, status) ==
    /\ said[m] # {}
    /\ Rank(Latest(m)) < Rank(status)
    /\ Latest(m) \in Final => Latest(m) = "delivered" /\ status = "read"
    /\ status = "read" => "delivered" \in said[m]
    /\ said' = [said EXCEPT ![m] = @ \cup {status}]
    /\ UNCHANGED <<taskVars, run, msg, posts, senders, faults>>

\* A signed callback.  One for a message whose id nobody has recorded is
\* answered 404 and changes nothing.
ApplyStatus(m, status) ==
    /\ status \in said[m] /\ msg[m].sid
    /\ TransitionAllowed(msg[m].provider, status)
    /\ Learn(m, status)
    /\ UNCHANGED <<taskVars, provider, senders, faults>>

\* reconcile_sms_message, operator_attested_unknown: nothing is resolved.
Attest(m) ==
    /\ Unresolved(m)
    /\ msg' = [msg EXCEPT ![m].status = "provider_unknown"]
    /\ KeepEvidence(m)
    /\ UNCHANGED <<taskVars, provider, senders, faults>>

\* reconcile_sms_message, provider_lookup, with the id the operator found at
\* the provider: its present status is taken as it is.
LookUp(m) ==
    /\ Unresolved(m) /\ said[m] # {}
    /\ Learn(m, Latest(m))
    /\ UNCHANGED <<taskVars, provider, senders, faults>>

------------------------------------------------------------------------------
\* A task in Review with a drafted text, or a request about to be posted.
Init ==
    /\ origin \in {"task", "request"}
    /\ task = IF origin = "task" THEN "review" ELSE "none"
    /\ made = 0
    /\ run = [m \in Messages |-> NoRun]
    /\ msg = [m \in Messages |-> NoMessage]
    /\ said = [m \in Messages |-> {}]
    /\ posts = [m \in Messages |-> 0]
    /\ pc = [s \in Senders |-> "idle"]
    /\ work = [s \in Senders |-> NoWork]
    /\ faults = 0

JobStep(s) == RecordOutcome(s) \/ \E m \in Messages : ClaimRun(s, m) \/ RefuseRun(s, m)
Dispatch(s) == \/ Refuse(s) \/ Reserve(s) \/ Fence(s) \/ Submit(s)
               \/ RecordAnswer(s) \/ LoseAnswer(s) \/ LoseDispatch(s)
               \/ AwaitWinner(s) \/ ReplayExpired(s) \/ Replay(s)

Next ==
    \/ Approve \/ Cancel \/ \E to \in {"review", "in_progress"} : MoveTask(to)
    \/ \E s \in Senders : JobStep(s) \/ Dispatch(s) \/ Post(s) \/ Fail(s) \/ Crash(s)
    \/ \E m \in Messages : \/ Terminalize(m) \/ Sweep(m) \/ Attest(m) \/ LookUp(m)
                           \/ \E status \in Statuses : \/ ProviderMoves(m, status)
                                                       \/ ApplyStatus(m, status)

Spec == Init /\ [][Next]_vars

\* The scheduler keeps polling its jobs and running its sweep.  Nobody has to
\* approve, post or reconcile, and the provider may stay silent.
FairSpec == /\ Spec
            /\ \A s \in Senders : WF_vars(JobStep(s) \/ Dispatch(s))
            /\ \A m \in Messages : WF_vars(Terminalize(m)) /\ WF_vars(Sweep(m))

------------------------------------------------------------------------------
(***************************************************************************)
(* Properties.                                                             *)
(***************************************************************************)

Certainties == {"not_attempted", "outcome_unknown", "provider_rejected",
                "provider_accepted", "provider_failed_after_acceptance",
                "confirmed_sent"}
MessageType == [status : {"none", "dispatching", "provider_unknown", "blocked",
                          "rejected", "submitted", "delivered", "failed"},
                provider : Statuses \cup {"none"},
                sid : BOOLEAN, reconcile : {"no", "required", "resolved"}]
RunType == [status : {"absent", "queued", "sending", "submitted", "sent", "failed"},
            certainty : Certainties, required : BOOLEAN, bound : BOOLEAN]
OutcomeType == [certainty : Certainties \cup {"none"}, named : BOOLEAN,
                required : BOOLEAN]
WorkType == [m : Messages, outcome : OutcomeType,
             answer : {"none", "queued", "failed", "rejected"}]
Places == {"idle", "lookup", "replay", "fence", "post", "posted", "finish", "done"}

\* Every row, sender and message is in a state the code knows.
TypeOK ==
    /\ origin \in {"task", "request"}
    /\ task \in {"none", "review", "in_progress", "cancelled"}
    /\ made \in 0..MaxMessages /\ faults \in 0..MaxFaults
    /\ run \in [Messages -> RunType] /\ msg \in [Messages -> MessageType]
    /\ said \in [Messages -> SUBSET Statuses] /\ posts \in [Messages -> Nat]
    /\ pc \in [Senders -> Places]
    /\ work \in [Senders -> WorkType]

\* One idempotency key, at most one request to the provider, however often it
\* is posted and whatever is lost ("a concurrent caller waits on the
\* tenant/key unique constraint and then replays or receives a
\* reconciliation-required response, never a second dispatch", sms.py:1837).
OneDispatchPerKey == \A m \in Messages : posts[m] <= 1

\* What a certainty and a name claim about the provider.
ClaimHolds(m, certainty) ==
    /\ certainty = "not_attempted" => posts[m] = 0
    /\ certainty = "provider_rejected" => said[m] = {}
    /\ certainty = "provider_accepted" => said[m] # {}
    /\ certainty = "confirmed_sent" => "delivered" \in said[m]
    /\ certainty = "provider_failed_after_acceptance" => "failed" \in said[m]

\* Neither a run that has ended nor a caller that was told of its message ever
\* claims more than the provider has said ("preserve failed attempts as
\* failures", sms.py:1420; "Return only provider-accepted truth").
ClaimsAreTrue ==
    /\ \A m \in Messages :
          run[m].status \in {"submitted", "sent", "failed"} => ClaimHolds(m, run[m].certainty)
    /\ \A s \in Senders :
          pc[s] \in {"finish", "done"} /\ work[s].outcome.named
             => ClaimHolds(work[s].m, work[s].outcome.certainty)

\* A message the provider may have taken and whose outcome is unknown blocks
\* its task until an operator settles it: the sweep, the failed recorder, the
\* worker and the job's takeover write the run in any order (CHANGELOG.md:1535,
\* "rebinds matching in-flight task runs").
UnknownBlocksTheTask ==
    \A m \in Messages :
        msg[m].status = "provider_unknown" /\ posts[m] > 0 /\ HasRun(m)
            => run[m].required

\* A task is cancelled only if the text of its latest approval never left,
\* and then it never does (task_automation.py:119, "Reject cancellation once
\* an SMS dispatch may have crossed the boundary").
CancelledMeansUnsent ==
    task = "cancelled" /\ made > 0 => posts[made] = 0

\* Settled delivery stays settled, in the message and in its run, whatever
\* arrives late (sms.py:206, "without letting retries regress settled truth").
SettledStays ==
    [][\A m \in Messages :
          /\ msg[m].status \in {"delivered", "failed"} => msg'[m].status = msg[m].status
          /\ run[m].status = "sent" => run'[m].status = "sent"]_vars

\* Whatever is submitted comes to its end or before an operator: no death and
\* no lost answer leaves it in flight for ever ("Bound stale leases so crashes
\* become explicit operator work, never retries", sms.py:3086).
SubmissionIsAccountedFor ==
    \A m \in Messages :
        posts[m] > 0 ~> \/ msg[m].status \in {"delivered", "failed", "rejected"}
                        \/ msg[m].reconcile # "no"

\* After a message went out, a replacement is approved only when its outcome is
\* known (task_automation.py:1712, "A prior SMS has an unknown provider
\* outcome. Reconcile that exact message before approving any replacement.").
ReplacementAfterKnownOutcome ==
    [][made' > made /\ made > 0 /\ posts[made] > 0 =>
          msg[made].status \notin {"dispatching", "provider_unknown"}]_vars
==============================================================================
