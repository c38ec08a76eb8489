-------------------------- MODULE SmsDelivery_proofs ---------------------------
(***************************************************************************)
(* Theorems about SmsDelivery, for any number of senders, drafts and       *)
(* deaths.                                                                 *)
(***************************************************************************)
EXTENDS SmsDelivery, TLAPS

(***************************************************************************)
(* Types.                                                                  *)
(***************************************************************************)
\* What a provider's status is turned into is a status of the row it is for.
LEMMA StatusTypes ==
    ASSUME NEW status \in Statuses \cup {"none"}
    PROVE  /\ MessageStatus(status) \in {"submitted", "delivered", "failed"}
           /\ RunStatus(status) \in {"submitted", "sent", "failed"}
           /\ CertaintyOf(status) \in {"confirmed_sent", "provider_accepted",
                                       "provider_failed_after_acceptance"}
  BY DEF Statuses, MessageStatus, RunStatus, CertaintyOf

\* Of what the provider has said there is a latest.
LEMMA LatestIsSaid ==
    ASSUME NEW m \in Messages, said[m] \subseteq Statuses, said[m] # {}
    PROVE  Latest(m) \in said[m]
<1>1. \A s \in Statuses : Rank(s) \in Nat
  BY DEF Statuses, Rank, RankOf
<1>2. \E s \in said[m] : \A t \in said[m] : Rank(t) <= Rank(s)
  BY DEF Statuses, Rank, RankOf
<1> QED
  BY <1>2 DEF Latest

\* A sender that has an outcome to record or to return was told one.
FinishHasOutcome ==
    \A s \in Senders : pc[s] \in {"finish", "done"} => work[s].outcome.certainty # "none"

Typed == TypeOK /\ FinishHasOutcome

\* What a sender can be told: always with a certainty.
Told == [certainty : Certainties, named : BOOLEAN, required : BOOLEAN]

LEMMA InitTyped == Init => Typed
  BY SmsAssumption
  DEF Init, Typed, FinishHasOutcome, TypeOK, Messages, NoRun, NoMessage, NoWork,
      NoOutcome, Outcome, RunType, MessageType, OutcomeType, WorkType, Certainties, Places

\* A row whose status and flags are rewritten is a row.
LEMMA MessageWritten ==
    ASSUME TypeOK, NEW m \in Messages, NEW row \in MessageType,
           msg' = [msg EXCEPT ![m] = row]
    PROVE  /\ msg' \in [Messages -> MessageType] /\ msg'[m] = row
           /\ \A n \in Messages \ {m} : msg'[n] = msg[n]
  BY DEF TypeOK

LEMMA StatusWritten ==
    ASSUME TypeOK, NEW m \in Messages,
           NEW status \in {"dispatching", "provider_unknown", "blocked", "rejected"},
           msg' = [msg EXCEPT ![m].status = status]
    PROVE  /\ msg' \in [Messages -> MessageType]
           /\ \A n \in Messages \ {m} : msg'[n] = msg[n]
           /\ msg'[m].status = status /\ msg'[m].provider = msg[m].provider
           /\ msg'[m].sid = msg[m].sid /\ msg'[m].reconcile = msg[m].reconcile
  BY DEF TypeOK, MessageType

LEMMA RunWritten ==
    ASSUME TypeOK, NEW m \in Messages, NEW row \in RunType,
           run' = [run EXCEPT ![m] = row]
    PROVE  /\ run' \in [Messages -> RunType] /\ run'[m] = row
           /\ \A n \in Messages \ {m} : run'[n] = run[n]
  BY DEF TypeOK

\* What a signed status teaches the message and its run.
LearnedRow(m, status) ==
    [status |-> MessageStatus(status), provider |-> status, sid |-> TRUE,
     reconcile |-> IF msg[m].reconcile = "no" THEN "no" ELSE "resolved"]
LearnedRun(status) ==
    [status |-> RunStatus(status), certainty |-> CertaintyOf(status),
     required |-> FALSE, bound |-> TRUE]
Evidence == [status |-> "failed", certainty |-> "outcome_unknown",
             required |-> TRUE, bound |-> TRUE]

LEMMA Learned ==
    ASSUME TypeOK, NEW m \in Messages, NEW status \in Statuses, Learn(m, status)
    PROVE  /\ msg' \in [Messages -> MessageType] /\ run' \in [Messages -> RunType]
           /\ \A n \in Messages \ {m} : msg'[n] = msg[n] /\ run'[n] = run[n]
           /\ msg'[m].status = MessageStatus(status) /\ msg'[m].provider = status
           /\ msg'[m].status \in {"submitted", "delivered", "failed"}
           /\ msg'[m].reconcile # "required"
           /\ run'[m] = IF HasRun(m) THEN LearnedRun(status) ELSE run[m]
<1>1. LearnedRow(m, status) \in MessageType /\ LearnedRun(status) \in RunType
  BY StatusTypes DEF LearnedRow, LearnedRun, MessageType, RunType, Certainties
<1>2. msg' = [msg EXCEPT ![m] = LearnedRow(m, status)]
  BY DEF Learn, LearnedRow
<1>3. run' = IF ~HasRun(m) THEN run ELSE [run EXCEPT ![m] = LearnedRun(status)]
  BY DEF Learn, LearnedRun
<1>4. /\ msg' \in [Messages -> MessageType] /\ msg'[m] = LearnedRow(m, status)
      /\ \A n \in Messages \ {m} : msg'[n] = msg[n]
  BY <1>1, <1>2, MessageWritten
<1>5. msg'[m].status = MessageStatus(status) /\ msg'[m].provider = status
      /\ msg'[m].reconcile # "required"
  BY <1>4 DEF LearnedRow
<1> QED
  BY <1>1, <1>3, <1>4, <1>5, StatusTypes, RunWritten DEF TypeOK

LEMMA Marked ==
    ASSUME TypeOK, NEW m \in Messages, NEW sid \in BOOLEAN,
           NEW status \in Statuses \cup {"none"}, MarkUnknown(m, sid, status)
    PROVE  /\ msg' \in [Messages -> MessageType]
           /\ \A n \in Messages \ {m} : msg'[n] = msg[n]
           /\ msg'[m].status = "provider_unknown" /\ msg'[m].provider = status
           /\ msg'[m].sid = sid /\ msg'[m].reconcile = "required"
  BY DEF TypeOK, MarkUnknown, MessageType

LEMMA EvidenceKept ==
    ASSUME TypeOK, NEW m \in Messages, KeepEvidence(m)
    PROVE  /\ run' \in [Messages -> RunType]
           /\ \A n \in Messages \ {m} : run'[n] = run[n]
           /\ run'[m] = IF HasRun(m) THEN Evidence ELSE run[m]
  BY RunWritten DEF TypeOK, KeepEvidence, Evidence, RunType, Certainties

LEMMA Answered ==
    ASSUME Typed, NEW s \in Senders, NEW outcome \in Told, Answer(s, outcome)
    PROVE  /\ pc' \in [Senders -> Places]
           /\ work' \in [Senders -> WorkType]
           /\ pc'[s] = IF origin = "task" THEN "finish" ELSE "done"
           /\ work'[s].m = work[s].m /\ work'[s].outcome = outcome
           /\ \A t \in Senders \ {s} : pc'[t] = pc[t] /\ work'[t] = work[t]
           /\ FinishHasOutcome'
<1>1. outcome \in OutcomeType /\ outcome.certainty # "none"
  BY DEF OutcomeType, Told, Certainties
<1>2. /\ pc' \in [Senders -> Places]
      /\ work' \in [Senders -> WorkType]
      /\ pc'[s] = IF origin = "task" THEN "finish" ELSE "done"
      /\ work'[s].m = work[s].m /\ work'[s].outcome = outcome
      /\ \A t \in Senders \ {s} : pc'[t] = pc[t] /\ work'[t] = work[t]
  BY <1>1 DEF Typed, TypeOK, Answer, Places, WorkType
<1> QED
  BY <1>1, <1>2 DEF Typed, FinishHasOutcome

LEMMA OutcomesTyped ==
    /\ NotAttempted \in Told /\ Unknown \in Told /\ NoOutcome \in OutcomeType
    /\ \A certainty \in Certainties, named, required \in BOOLEAN :
          Outcome(certainty, named, required) \in Told
  BY DEF Outcome, OutcomeType, Told, Certainties, NotAttempted, Unknown, NoOutcome

LEMMA NoWorkTyped == NoWork \in WorkType
  BY OutcomesTyped, SmsAssumption DEF WorkType, NoWork, Messages

\* A sender's message is a message.
LEMMA WorkTyped ==
    ASSUME TypeOK, NEW s \in Senders
    PROVE  /\ work[s] \in WorkType /\ work[s].m \in Messages
           /\ work[s].outcome \in OutcomeType
           /\ work[s].answer \in {"none", "queued", "failed", "rejected"}
  BY DEF TypeOK, WorkType

\* What a refused, failed or replayed request answers is an outcome.
LEMMA ReplayedTyped == ASSUME NEW m PROVE Replayed(m) \in Certainties
  BY DEF Replayed, Certainties

LEMMA NextTyped == Typed /\ [Next]_vars => Typed'
<1> SUFFICES ASSUME Typed, [Next]_vars PROVE Typed'
  OBVIOUS
<1> USE DEF taskVars, provider, senders, Typed
<1>1. CASE Approve
  <2>1. made + 1 \in Messages /\ made' \in 0..MaxMessages
    BY <1>1, SmsAssumption DEF Approve, TypeOK, Messages
  <2>2. run' \in [Messages -> RunType]
    BY <1>1, <2>1 DEF Approve, TypeOK, RunType
  <2> QED
    BY <1>1, <2>1, <2>2 DEF Approve, TypeOK, FinishHasOutcome
<1>2. CASE Cancel \/ \E to \in {"review", "in_progress"} : MoveTask(to)
  BY <1>2 DEF Cancel, MoveTask, TypeOK, FinishHasOutcome
<1>3. ASSUME NEW s \in Senders, NEW m \in Messages, ClaimRun(s, m) \/ RefuseRun(s, m)
      PROVE  Typed'
  <2>1. [NoWork EXCEPT !.m = m] \in WorkType
    BY OutcomesTyped DEF WorkType, NoWork
  <2>2. CASE ClaimRun(s, m)
    <3>1. run' \in [Messages -> RunType]
      BY <2>2 DEF ClaimRun, TypeOK, RunType
    <3> QED
      BY <2>1, <2>2, <3>1 DEF ClaimRun, TypeOK, Places, FinishHasOutcome
  <2>3. CASE RefuseRun(s, m)
    BY <2>3 DEF RefuseRun, TypeOK, RunType, FinishHasOutcome
  <2> QED
    BY <1>3, <2>2, <2>3
<1>4. ASSUME NEW s \in Senders, RecordOutcome(s) PROVE Typed'
  <2> DEFINE out == work[s].outcome
             row == [status |-> IF out.certainty = "provider_accepted"
                                THEN "submitted" ELSE "failed",
                     certainty |-> out.certainty, required |-> out.required,
                     bound |-> out.named]
  <2>1. work[s].m \in Messages /\ out \in OutcomeType
    BY DEF TypeOK, WorkType
  <2>2. out.certainty # "none" => row \in RunType
    BY <2>1 DEF OutcomeType, RunType
  <2>3. NoWork \in WorkType
    BY NoWorkTyped
  <2>4. run' \in [Messages -> RunType]
    BY <1>4, <2>1, <2>2, RunWritten DEF RecordOutcome, FinishHasOutcome, TypeOK
  <2> QED
    BY <1>4, <2>3, <2>4 DEF RecordOutcome, TypeOK, Places, FinishHasOutcome
<1>5. ASSUME NEW s \in Senders, Post(s) \/ Crash(s) PROVE Typed'
  <2>1. pc' \in [Senders -> Places] /\ work' \in [Senders -> WorkType] /\ FinishHasOutcome'
    BY <1>5, NoWorkTyped DEF Post, Crash, TypeOK, Places, FinishHasOutcome
  <2>2. faults' \in 0..MaxFaults
    BY <1>5, SmsAssumption DEF Post, Crash, TypeOK
  <2> QED
    BY <1>5, <2>1, <2>2 DEF Post, Crash, TypeOK
<1>6. ASSUME NEW s \in Senders,
             Refuse(s) \/ Fail(s) \/ LoseDispatch(s) \/ AwaitWinner(s) \/ Replay(s)
      PROVE  Typed'
  <2>1. PICK outcome \in Told : Answer(s, outcome)
    BY <1>6, OutcomesTyped, ReplayedTyped
    DEF Refuse, Fail, LoseDispatch, AwaitWinner, Replay, Certainties
  <2> QED
    <3>1. faults' \in 0..MaxFaults
      <4>1. faults' = faults \/ (faults < MaxFaults /\ faults' = faults + 1)
        BY <1>6 DEF Refuse, Fail, LoseDispatch, AwaitWinner, Replay
      <4> QED
        BY <4>1, SmsAssumption DEF TypeOK
    <3>2. UNCHANGED <<taskVars, run, msg, provider>>
      BY <1>6 DEF Refuse, Fail, LoseDispatch, AwaitWinner, Replay
    <3> QED
      BY <2>1, <3>1, <3>2, Answered DEF TypeOK
<1>7. ASSUME NEW s \in Senders, Reserve(s) PROVE Typed'
  <2>1. msg' \in [Messages -> MessageType]
    BY <1>7, WorkTyped, StatusWritten DEF Reserve, TypeOK
  <2> QED
    BY <1>7, <2>1 DEF Reserve, GoTo, TypeOK, Places, FinishHasOutcome
<1>8. ASSUME NEW s \in Senders, Fence(s) PROVE Typed'
  <2>1. CASE GoTo(s, "post") /\ UNCHANGED msg
    BY <1>8, <2>1 DEF Fence, GoTo, TypeOK, Places, FinishHasOutcome
  <2>2. CASE ~(GoTo(s, "post") /\ UNCHANGED msg)
    <3>1. PICK outcome \in Told : Answer(s, outcome)
      BY <1>8, <2>2, OutcomesTyped DEF Fence, Certainties
    <3>2. msg' \in [Messages -> MessageType]
      BY <1>8, <2>2, WorkTyped, StatusWritten DEF Fence, TypeOK
    <3> QED
      BY <1>8, <3>1, <3>2, Answered DEF Fence, TypeOK
  <2> QED
    BY <2>1, <2>2
<1>9. ASSUME NEW s \in Senders, Submit(s) PROVE Typed'
  BY <1>9 DEF Submit, TypeOK, WorkType, Places, Statuses, FinishHasOutcome
<1>10. ASSUME NEW s \in Senders, RecordAnswer(s) PROVE Typed'
  <2>1. PICK outcome \in Told : Answer(s, outcome)
    <3>1. CASE work[s].answer = "rejected"
      BY <1>10, <3>1, OutcomesTyped DEF RecordAnswer, Certainties
    <3>2. CASE work[s].answer # "rejected"
      <4>1. CertaintyOf(work[s].answer) \in Certainties
        BY <3>2, StatusTypes, WorkTyped DEF Statuses, Certainties
      <4> QED
        BY <1>10, <3>2, <4>1, OutcomesTyped DEF RecordAnswer
    <3> QED
      BY <3>1, <3>2
  <2>2. msg' \in [Messages -> MessageType]
    <3>1. CASE work[s].answer = "rejected"
      BY <1>10, <3>1, WorkTyped, StatusWritten DEF RecordAnswer, TypeOK
    <3>2. CASE work[s].answer # "rejected"
      <4>1. MessageStatus(work[s].answer) \in {"submitted", "delivered", "failed"}
        BY <3>2, StatusTypes, WorkTyped DEF Statuses
      <4> QED
        BY <1>10, <3>2, <4>1, WorkTyped DEF RecordAnswer, TypeOK, MessageType, Statuses
    <3> QED
      BY <3>1, <3>2
  <2> QED
    BY <1>10, <2>1, <2>2, Answered DEF RecordAnswer, TypeOK
<1>11. ASSUME NEW s \in Senders, LoseAnswer(s) \/ ReplayExpired(s) PROVE Typed'
  <2>1. Answer(s, Unknown) /\ work[s].m \in Messages
    BY <1>11 DEF LoseAnswer, ReplayExpired, TypeOK, WorkType
  <2>2. msg' \in [Messages -> MessageType] /\ run' \in [Messages -> RunType]
    <3>1. CASE UNCHANGED <<msg, run>>
      BY <3>1 DEF TypeOK
    <3>2. CASE ~UNCHANGED <<msg, run>>
      BY <1>11, <2>1, <3>2, Marked, EvidenceKept
      DEF LoseAnswer, ReplayExpired, TypeOK, WorkType, Statuses, StillDispatching
    <3> QED
      BY <3>1, <3>2
  <2> QED
    BY <1>11, <2>1, <2>2, OutcomesTyped, Answered DEF LoseAnswer, ReplayExpired, TypeOK
<1>12. ASSUME NEW m \in Messages, Terminalize(m) PROVE Typed'
  <2>1. run' \in [Messages -> RunType]
    <3> DEFINE row == [run[m] EXCEPT !.status = "failed", !.certainty = "outcome_unknown"]
    <3>1. run[m] \in RunType
      BY DEF TypeOK
    <3>2. row \in RunType
      BY <3>1 DEF RunType, Certainties
    <3>3. run' = [run EXCEPT ![m] = row]
      BY <1>12 DEF Terminalize, TypeOK
    <3> QED
      BY <3>2, <3>3, RunWritten
  <2> QED
    BY <1>12, <2>1 DEF Terminalize, TypeOK, FinishHasOutcome
<1>13. ASSUME NEW m \in Messages, Sweep(m) PROVE Typed'
  <2>1. CASE MarkUnknown(m, FALSE, "none") /\ KeepEvidence(m)
    BY <1>13, <2>1, Marked, EvidenceKept DEF Sweep, TypeOK, FinishHasOutcome
  <2>2. CASE msg' = [msg EXCEPT ![m].reconcile = "required"] /\ UNCHANGED run
    <3>1. msg' \in [Messages -> MessageType]
      BY <2>2 DEF TypeOK, MessageType
    <3> QED
      BY <1>13, <2>2, <3>1 DEF Sweep, TypeOK, FinishHasOutcome
  <2> QED
    BY <1>13, <2>1, <2>2 DEF Sweep
<1>14. ASSUME NEW m \in Messages, Attest(m) PROVE Typed'
  <2>1. msg' \in [Messages -> MessageType]
    BY <1>14, StatusWritten DEF Attest
  <2>2. run' \in [Messages -> RunType]
    BY <1>14, EvidenceKept DEF Attest
  <2> QED
    BY <1>14, <2>1, <2>2 DEF Attest, TypeOK, FinishHasOutcome
<1>15. ASSUME NEW m \in Messages, LookUp(m) PROVE Typed'
  BY <1>15, LatestIsSaid, Learned DEF LookUp, TypeOK, FinishHasOutcome
<1>16. ASSUME NEW m \in Messages, NEW status \in Statuses,
              ProviderMoves(m, status) \/ ApplyStatus(m, status)
       PROVE  Typed'
  BY <1>16, Learned DEF ProviderMoves, ApplyStatus, TypeOK, FinishHasOutcome
<1>17. CASE UNCHANGED vars
  BY <1>17 DEF vars, TypeOK, FinishHasOutcome
<1> QED
  BY <1>1, <1>2, <1>3, <1>4, <1>5, <1>6, <1>7, <1>8, <1>9, <1>10, <1>11, <1>12, <1>13,
     <1>14, <1>15, <1>16, <1>17
  DEF Next, JobStep, Dispatch

\* Every row, sender and message is in a state the code knows, whatever happens.
THEOREM TypeCorrect == Spec => []TypeOK
  BY InitTyped, NextTyped, PTL DEF Spec, Typed

-------------------------------------------------------------------------------
(***************************************************************************)
(* One dispatch per key.                                                   *)
(***************************************************************************)
\* A sender dispatches m from the reservation to the provider's answer.
Dispatching(s, m) == pc[s] \in {"fence", "post", "posted"} /\ work[s].m = m
NoDispatcher(m) == \A s \in Senders : ~Dispatching(s, m)

\* Who reserves m is alone: nobody finds the row unreserved again.
OneDispatcher ==
    \A m \in Messages : \A s, t \in Senders :
        Dispatching(s, m) /\ Dispatching(t, m) => s = t

FreshIsUntouched ==
    \A m \in Messages : msg[m].status = "none" =>
        msg[m] = NoMessage /\ posts[m] = 0 /\ NoDispatcher(m)

\* Until it has posted, nothing went out.
PostIsFirst ==
    \A s \in Senders : pc[s] \in {"fence", "post"} => posts[work[s].m] = 0

SilentBeforePost == \A m \in Messages : posts[m] = 0 => said[m] = {}

DispatchInv == /\ OneDispatcher /\ FreshIsUntouched /\ PostIsFirst
               /\ SilentBeforePost /\ OneDispatchPerKey

\* Every step but a reservation and a post begins no dispatch.
Quiet ==
    /\ posts' = posts
    /\ \A m \in Messages : said[m] = {} => said'[m] = {}
    /\ \A m \in Messages : msg'[m].status = "none" => msg'[m] = msg[m]
    /\ \A t \in Senders : pc'[t] \in {"fence", "post", "posted"} =>
          /\ pc[t] \in {"fence", "post", "posted"} /\ work'[t].m = work[t].m
          /\ pc'[t] \in {"fence", "post"} => pc[t] \in {"fence", "post"}

LEMMA QuietKeepsDispatch ==
    ASSUME Typed, DispatchInv, Quiet
    PROVE  DispatchInv'
<1>1. \A m \in Messages, t \in Senders : Dispatching(t, m)' => Dispatching(t, m)
  BY DEF Quiet, Dispatching
<1>2. OneDispatcher'
  BY <1>1 DEF DispatchInv, OneDispatcher
<1>3. FreshIsUntouched'
  <2>1. \A m \in Messages : msg'[m].status = "none" =>
           msg'[m] = NoMessage /\ posts[m] = 0 /\ NoDispatcher(m)
    BY DEF DispatchInv, FreshIsUntouched, Quiet
  <2>2. \A m \in Messages : NoDispatcher(m) => NoDispatcher(m)'
    BY <1>1 DEF NoDispatcher
  <2> QED
    BY <2>1, <2>2 DEF FreshIsUntouched, Quiet, NoMessage
<1>4. PostIsFirst' /\ SilentBeforePost' /\ OneDispatchPerKey'
  BY WorkTyped
  DEF DispatchInv, PostIsFirst, SilentBeforePost, OneDispatchPerKey, Quiet, Typed
<1> QED
  BY <1>2, <1>3, <1>4 DEF DispatchInv

\* The two steps that are not quiet.
LEMMA ReserveKeepsDispatch ==
    ASSUME Typed, DispatchInv, NEW s \in Senders, Reserve(s)
    PROVE  DispatchInv'
<1> DEFINE m == work[s].m
<1>1. m \in Messages /\ UNCHANGED <<work, said, posts>>
      /\ \A t \in Senders \ {s} : pc'[t] = pc[t]
  BY WorkTyped DEF Reserve, GoTo, Typed, TypeOK, provider
<1>2. CASE msg[m] # NoMessage
  <2>1. Quiet
    BY <1>1, <1>2 DEF Reserve, GoTo, Quiet, Typed, TypeOK
  <2> QED
    BY <2>1, QuietKeepsDispatch
<1>3. CASE msg[m] = NoMessage
  <2>1. /\ pc'[s] = "fence" /\ msg'[m].status = "dispatching"
        /\ \A n \in Messages \ {m} : msg'[n] = msg[n]
    BY <1>1, <1>3, StatusWritten DEF Reserve, GoTo, Typed, TypeOK
  <2>2. NoDispatcher(m) /\ posts[m] = 0
    BY <1>1, <1>3 DEF DispatchInv, FreshIsUntouched, NoMessage
  <2>3. OneDispatcher'
    BY <1>1, <2>2 DEF DispatchInv, OneDispatcher, NoDispatcher, Dispatching
  <2>4. FreshIsUntouched'
    <3> SUFFICES ASSUME NEW n \in Messages, msg'[n].status = "none"
                 PROVE  msg'[n] = NoMessage /\ posts'[n] = 0 /\ NoDispatcher(n)'
      BY DEF FreshIsUntouched, NoMessage
    <3>1. n # m
      BY <2>1
    <3> QED
      BY <1>1, <2>1, <3>1 DEF DispatchInv, FreshIsUntouched, NoDispatcher, Dispatching
  <2>5. PostIsFirst' /\ SilentBeforePost' /\ OneDispatchPerKey'
    BY <1>1, <2>2 DEF DispatchInv, PostIsFirst, SilentBeforePost, OneDispatchPerKey
  <2> QED
    BY <2>3, <2>4, <2>5 DEF DispatchInv
<1> QED
  BY <1>2, <1>3

LEMMA SubmitKeepsDispatch ==
    ASSUME Typed, DispatchInv, NEW s \in Senders, Submit(s)
    PROVE  DispatchInv'
<1> DEFINE m == work[s].m
<1>1. /\ m \in Messages /\ pc[s] = "post" /\ pc'[s] = "posted" /\ msg' = msg
      /\ \A t \in Senders : work'[t].m = work[t].m
      /\ \A t \in Senders \ {s} : pc'[t] = pc[t]
      /\ \A n \in Messages \ {m} : posts'[n] = posts[n] /\ said'[n] = said[n]
      /\ posts'[m] = posts[m] + 1
  BY WorkTyped DEF Submit, Typed, TypeOK, WorkType
<1>2. posts[m] = 0 /\ posts'[m] = 1
  BY <1>1 DEF DispatchInv, PostIsFirst
<1>3. \A n \in Messages, t \in Senders : Dispatching(t, n)' <=> Dispatching(t, n)
  BY <1>1 DEF Dispatching
<1>4. OneDispatcher'
  BY <1>3 DEF DispatchInv, OneDispatcher
<1>5. Dispatching(s, m)
  BY <1>1 DEF Dispatching
<1>6. FreshIsUntouched'
  <2> SUFFICES ASSUME NEW n \in Messages, msg'[n].status = "none"
               PROVE  msg'[n] = NoMessage /\ posts'[n] = 0 /\ NoDispatcher(n)'
    BY DEF FreshIsUntouched, NoMessage
  <2>1. msg[n] = NoMessage /\ posts[n] = 0 /\ NoDispatcher(n)
    BY <1>1 DEF DispatchInv, FreshIsUntouched
  <2>2. n # m
    BY <1>5, <2>1 DEF NoDispatcher
  <2> QED
    BY <1>1, <1>3, <2>1, <2>2 DEF NoDispatcher
<1>7. PostIsFirst'
  <2> SUFFICES ASSUME NEW t \in Senders, pc'[t] \in {"fence", "post"}
               PROVE  posts'[work'[t].m] = 0
    BY DEF PostIsFirst
  <2>1. t # s /\ pc[t] \in {"fence", "post"} /\ work[t].m \in Messages
    BY <1>1, WorkTyped DEF Typed
  <2>2. work[t].m # m
    BY <1>1, <1>5, <2>1 DEF DispatchInv, OneDispatcher, Dispatching
  <2> QED
    BY <1>1, <2>1, <2>2 DEF DispatchInv, PostIsFirst
<1>8. SilentBeforePost' /\ OneDispatchPerKey'
  BY <1>1, <1>2 DEF DispatchInv, SilentBeforePost, OneDispatchPerKey
<1> QED
  BY <1>4, <1>6, <1>7, <1>8 DEF DispatchInv

\* How the answer, and the sweep of a submission, write the message.
LEMMA AnswerWritten ==
    ASSUME Typed, NEW s \in Senders, RecordAnswer(s)
    PROVE  LET m == work[s].m
               answer == work[s].answer
           IN /\ \A n \in Messages \ {m} : msg'[n] = msg[n]
              /\ msg'[m].reconcile = msg[m].reconcile
              /\ IF answer = "rejected"
                 THEN /\ msg'[m].status = "rejected" /\ msg'[m].sid = msg[m].sid
                      /\ msg'[m].provider = msg[m].provider
                 ELSE /\ msg'[m].status = MessageStatus(answer)
                      /\ msg'[m].status \in {"submitted", "delivered", "failed"}
                      /\ msg'[m].provider = answer
<1>1. work[s].m \in Messages /\ msg \in [Messages -> MessageType]
  BY WorkTyped DEF Typed, TypeOK
<1>2. CASE work[s].answer = "rejected"
  BY <1>1, <1>2, StatusWritten DEF RecordAnswer, Typed
<1>3. CASE work[s].answer # "rejected"
  <2>1. MessageStatus(work[s].answer) \in {"submitted", "delivered", "failed"}
    BY <1>3, StatusTypes, WorkTyped DEF Statuses, Typed
  <2> QED
    BY <1>1, <1>3, <2>1 DEF RecordAnswer, MessageType
<1> QED
  BY <1>2, <1>3

LEMMA OverdueWritten ==
    ASSUME Typed, NEW m \in Messages, msg' = [msg EXCEPT ![m].reconcile = "required"]
    PROVE  /\ \A n \in Messages \ {m} : msg'[n] = msg[n]
           /\ msg'[m].status = msg[m].status /\ msg'[m].provider = msg[m].provider
           /\ msg'[m].sid = msg[m].sid /\ msg'[m].reconcile = "required"
  BY DEF Typed, TypeOK, MessageType

\* A sender that is answered, and a message written as it is answered.
LEMMA AnswerIsQuiet ==
    ASSUME Typed, NEW s \in Senders, NEW outcome \in Told, Answer(s, outcome),
           UNCHANGED provider,
           \A m \in Messages : msg'[m].status = "none" => msg'[m] = msg[m]
    PROVE  Quiet
  BY Answered DEF Quiet, provider

LEMMA OtherStepsAreQuiet ==
    ASSUME Typed, [Next]_vars, \A s \in Senders : ~Reserve(s) /\ ~Submit(s)
    PROVE  Quiet
<1> USE DEF taskVars, provider, senders
<1>1. CASE Approve \/ Cancel \/ \E to \in {"review", "in_progress"} : MoveTask(to)
  BY <1>1 DEF Approve, Cancel, MoveTask, Quiet
<1>2. ASSUME NEW s \in Senders, NEW m \in Messages, ClaimRun(s, m) \/ RefuseRun(s, m)
      PROVE  Quiet
  BY <1>2 DEF ClaimRun, RefuseRun, Quiet, Typed, TypeOK
<1>3. ASSUME NEW s \in Senders, RecordOutcome(s) \/ Post(s) \/ Crash(s) PROVE Quiet
  BY <1>3 DEF RecordOutcome, Post, Crash, Quiet, Typed, TypeOK
<1>4. ASSUME NEW s \in Senders,
             Refuse(s) \/ Fail(s) \/ LoseDispatch(s) \/ AwaitWinner(s) \/ Replay(s)
      PROVE  Quiet
  <2>1. PICK outcome \in Told : Answer(s, outcome)
    BY <1>4, OutcomesTyped, ReplayedTyped
    DEF Refuse, Fail, LoseDispatch, AwaitWinner, Replay, Certainties
  <2>2. UNCHANGED <<msg, provider>>
    BY <1>4 DEF Refuse, Fail, LoseDispatch, AwaitWinner, Replay
  <2> QED
    BY <2>1, <2>2, AnswerIsQuiet
<1>5. ASSUME NEW s \in Senders, Fence(s) PROVE Quiet
  <2>1. CASE GoTo(s, "post") /\ UNCHANGED msg
    BY <1>5, <2>1 DEF Fence, GoTo, Quiet, Typed, TypeOK
  <2>2. CASE ~(GoTo(s, "post") /\ UNCHANGED msg)
    <3>1. PICK outcome \in Told : Answer(s, outcome)
      BY <1>5, <2>2, OutcomesTyped DEF Fence, Certainties
    <3>2. \A m \in Messages : msg'[m].status = "none" => msg'[m] = msg[m]
      BY <1>5, <2>2, WorkTyped, StatusWritten DEF Fence, Typed
    <3> QED
      BY <1>5, <3>1, <3>2, AnswerIsQuiet DEF Fence
  <2> QED
    BY <2>1, <2>2
<1>6. ASSUME NEW s \in Senders, RecordAnswer(s) PROVE Quiet
  <2>1. PICK outcome \in Told : Answer(s, outcome)
    BY <1>6, OutcomesTyped, StatusTypes, WorkTyped
    DEF RecordAnswer, Certainties, Statuses, Typed
  <2>2. \A m \in Messages : msg'[m].status = "none" => msg'[m] = msg[m]
    BY <1>6, AnswerWritten
  <2> QED
    BY <1>6, <2>1, <2>2, AnswerIsQuiet DEF RecordAnswer
<1>7. ASSUME NEW s \in Senders, LoseAnswer(s) \/ ReplayExpired(s) PROVE Quiet
  <2>1. Answer(s, Unknown) /\ work[s].m \in Messages /\ UNCHANGED provider
    BY <1>7, WorkTyped DEF LoseAnswer, ReplayExpired, Typed
  <2>2. \A m \in Messages : msg'[m].status = "none" => msg'[m] = msg[m]
    BY <1>7, <2>1, WorkTyped, Marked DEF LoseAnswer, ReplayExpired, Typed, Statuses
  <2> QED
    BY <2>1, <2>2, AnswerIsQuiet, OutcomesTyped
<1>8. ASSUME NEW m \in Messages, Terminalize(m) \/ Sweep(m) \/ Attest(m) PROVE Quiet
  <2>1. UNCHANGED <<senders, provider>>
    BY <1>8 DEF Terminalize, Sweep, Attest
  <2>2. \A n \in Messages : msg'[n].status = "none" => msg'[n] = msg[n]
    <3>1. CASE Terminalize(m)
      BY <3>1 DEF Terminalize
    <3>2. CASE Sweep(m)
      BY <3>2, Marked, OverdueWritten DEF Sweep, Typed
    <3>3. CASE Attest(m)
      BY <3>3, StatusWritten DEF Attest, Typed
    <3> QED
      BY <1>8, <3>1, <3>2, <3>3
  <2> QED
    BY <2>1, <2>2 DEF Quiet
<1>9. ASSUME NEW m \in Messages, NEW status \in Statuses, Learn(m, status),
             UNCHANGED <<senders, provider>>
      PROVE  Quiet
  <2>1. \A n \in Messages : msg'[n].status = "none" => msg'[n] = msg[n]
    BY <1>9, Learned DEF Typed
  <2> QED
    BY <1>9, <2>1 DEF Quiet
<1>10. ASSUME NEW m \in Messages, LookUp(m) PROVE Quiet
  BY <1>9, <1>10, LatestIsSaid DEF LookUp, Typed, TypeOK
<1>11. ASSUME NEW m \in Messages, NEW status \in Statuses, ApplyStatus(m, status)
       PROVE  Quiet
  BY <1>9, <1>11 DEF ApplyStatus
<1>12. ASSUME NEW m \in Messages, NEW status \in Statuses, ProviderMoves(m, status)
       PROVE  Quiet
  BY <1>12 DEF ProviderMoves, Quiet, Typed, TypeOK
<1>13. CASE UNCHANGED vars
  BY <1>13 DEF vars, Quiet
<1> QED
  BY <1>1, <1>2, <1>3, <1>4, <1>5, <1>6, <1>7, <1>8, <1>10, <1>11, <1>12, <1>13
  DEF Next, JobStep, Dispatch

LEMMA NextKeepsDispatch == Typed /\ DispatchInv /\ [Next]_vars => DispatchInv'
  BY ReserveKeepsDispatch, SubmitKeepsDispatch, QuietKeepsDispatch, OtherStepsAreQuiet

LEMMA InitDispatchInv == Init => DispatchInv
  BY DEF Init, DispatchInv, OneDispatcher, FreshIsUntouched, PostIsFirst,
         SilentBeforePost, OneDispatchPerKey, Dispatching, NoDispatcher, NoMessage

\* One idempotency key, at most one request to the provider, for any number of
\* senders and deaths.
THEOREM DispatchedOnce == Spec => []OneDispatchPerKey
<1>1. DispatchInv => OneDispatchPerKey
  BY DEF DispatchInv
<1> QED
  BY <1>1, InitTyped, InitDispatchInv, NextTyped, NextKeepsDispatch, PTL DEF Spec

-------------------------------------------------------------------------------
(***************************************************************************)
(* What a message's row, and a caller that was told of it, say.            *)
(***************************************************************************)
\* A row says no more than the provider has said; a row that nobody may touch
\* again has no dispatcher and no id a callback could find it by.
MessageIsTrue(m) ==
    /\ msg[m].status = "blocked" => posts[m] = 0
    /\ msg[m].status = "rejected" => said[m] = {}
    /\ msg[m].status \in {"blocked", "rejected"} => NoDispatcher(m)
    /\ msg[m].status \in {"blocked", "rejected", "dispatching"} =>
          ~msg[m].sid /\ msg[m].reconcile = "no"
    /\ msg[m].status \in {"submitted", "delivered", "failed"} =>
          /\ msg[m].provider \in Statuses
          /\ msg[m].status = MessageStatus(msg[m].provider)
    /\ msg[m].provider # "none" => msg[m].provider \in said[m]
    /\ "read" \in said[m] => "delivered" \in said[m]
    /\ msg[m].status \in {"delivered", "failed"} => ~Unresolved(m)

\* The answer a sender holds is the provider's.
AnswerIsTrue(s) ==
    pc[s] = "posted" =>
        IF work[s].answer = "rejected" THEN said[work[s].m] = {}
        ELSE work[s].answer \in said[work[s].m] \cap {"queued", "failed"}

\* A certainty that nothing can prove wrong later.
Settles(m, certainty) ==
    /\ certainty = "not_attempted" => msg[m].status = "blocked"
    /\ certainty = "provider_rejected" => msg[m].status = "rejected"
    /\ certainty = "provider_accepted" => said[m] # {}
    /\ certainty = "confirmed_sent" => "delivered" \in said[m]
    /\ certainty = "provider_failed_after_acceptance" => "failed" \in said[m]

OutcomeIsTrue(s) ==
    pc[s] \in {"finish", "done"} /\ work[s].outcome.named
        => Settles(work[s].m, work[s].outcome.certainty)

MsgInv == /\ \A m \in Messages : MessageIsTrue(m)
          /\ \A s \in Senders : AnswerIsTrue(s) /\ OutcomeIsTrue(s)

\* What the provider said stays said; a blocked or rejected row stays as it is.
Lasting ==
    \A m \in Messages :
        /\ said[m] \subseteq said'[m]
        /\ msg[m].status \in {"blocked", "rejected"} => msg'[m].status = msg[m].status

LEMMA SettledLasts ==
    ASSUME Lasting, NEW m \in Messages, NEW certainty, Settles(m, certainty)
    PROVE  Settles(m, certainty)'
  BY DEF Lasting, Settles

\* A sender that stands still goes on to hold a true answer.
Stands(t) ==
    /\ pc'[t] = pc[t] /\ work'[t] = work[t]
    /\ pc[t] = "posted" /\ said[work[t].m] = {} => said'[work[t].m] = {}

LEMMA MsgStep ==
    ASSUME Typed, MsgInv, Lasting,
           \A m \in Messages : MessageIsTrue(m)',
           \A t \in Senders : Stands(t) \/ (AnswerIsTrue(t)' /\ OutcomeIsTrue(t)')
    PROVE  MsgInv'
<1> SUFFICES ASSUME NEW t \in Senders, Stands(t)
             PROVE  AnswerIsTrue(t)' /\ OutcomeIsTrue(t)'
  BY DEF MsgInv
<1>1. work[t].m \in Messages
  BY WorkTyped DEF Typed
<1>2. AnswerIsTrue(t)'
  BY <1>1 DEF MsgInv, AnswerIsTrue, Stands, Lasting
<1>3. OutcomeIsTrue(t)'
  BY <1>1, SettledLasts DEF MsgInv, OutcomeIsTrue, Stands
<1> QED
  BY <1>2, <1>3

\* A message that is not written stays true.
LEMMA SameMessage ==
    ASSUME NEW m \in Messages, MessageIsTrue(m), msg'[m] = msg[m],
           posts'[m] = posts[m], said'[m] = said[m], NoDispatcher(m) => NoDispatcher(m)'
    PROVE  MessageIsTrue(m)'
  BY DEF MessageIsTrue, Unresolved

\* So do all messages but one, and all senders but those that move, in a quiet
\* step during which the provider says nothing.
LEMMA QuietMsgStep ==
    ASSUME Typed, MsgInv, Quiet, said' = said, NEW m \in Messages,
           \A n \in Messages \ {m} : msg'[n] = msg[n],
           msg[m].status \in {"blocked", "rejected"} => msg'[m].status = msg[m].status,
           MessageIsTrue(m)',
           \A t \in Senders : \/ pc'[t] = pc[t] /\ work'[t] = work[t]
                              \/ AnswerIsTrue(t)' /\ OutcomeIsTrue(t)'
    PROVE  MsgInv'
<1>1. Lasting
  BY DEF Lasting
<1>2. \A n \in Messages : NoDispatcher(n) => NoDispatcher(n)'
  BY DEF NoDispatcher, Dispatching, Quiet
<1>3. \A n \in Messages : MessageIsTrue(n)'
  BY <1>2, SameMessage DEF MsgInv, Quiet
<1> QED
  BY <1>1, <1>3, MsgStep DEF Stands

\* A step that writes no message.
LEMMA UnwrittenMsgStep ==
    ASSUME Typed, MsgInv, Quiet, said' = said, msg' = msg,
           \A t \in Senders : \/ pc'[t] = pc[t] /\ work'[t] = work[t]
                              \/ AnswerIsTrue(t)' /\ OutcomeIsTrue(t)'
    PROVE  MsgInv'
<1>1. Lasting
  BY DEF Lasting
<1>2. \A n \in Messages : NoDispatcher(n) => NoDispatcher(n)'
  BY DEF NoDispatcher, Dispatching, Quiet
<1>3. \A n \in Messages : MessageIsTrue(n)'
  BY <1>2, SameMessage DEF MsgInv, Quiet
<1> QED
  BY <1>1, <1>3, MsgStep DEF Stands

\* A sender is told of its message.
LEMMA AnswerMsgStep ==
    ASSUME Typed, MsgInv, Quiet, said' = said,
           NEW s \in Senders, NEW m \in Messages, work[s].m = m,
           NEW outcome \in Told, Answer(s, outcome),
           \A n \in Messages \ {m} : msg'[n] = msg[n],
           msg[m].status \in {"blocked", "rejected"} => msg'[m].status = msg[m].status,
           MessageIsTrue(m)',
           outcome.named => Settles(m, outcome.certainty)'
    PROVE  MsgInv'
<1>1. /\ pc'[s] # "posted" /\ work'[s].m = m /\ work'[s].outcome = outcome
      /\ \A t \in Senders \ {s} : pc'[t] = pc[t] /\ work'[t] = work[t]
  BY Answered
<1>2. AnswerIsTrue(s)' /\ OutcomeIsTrue(s)'
  BY <1>1 DEF AnswerIsTrue, OutcomeIsTrue, Settles
<1> QED
  BY <1>1, <1>2, QuietMsgStep

\* An outcome that claims nothing is true.
LEMMA ClaimsNothing ==
    ASSUME NEW m
    PROVE  Settles(m, "outcome_unknown") /\ Settles(m, "outcome_unknown")'
  BY DEF Settles

LEMMA ReadersKeepMsgInv ==
    ASSUME Typed, DispatchInv, MsgInv, Quiet, NEW s \in Senders,
           Refuse(s) \/ Fail(s) \/ LoseDispatch(s) \/ AwaitWinner(s) \/ Replay(s)
    PROVE  MsgInv'
<1> SUFFICES ASSUME NEW m \in Messages, work[s].m = m PROVE MsgInv'
  BY WorkTyped DEF Typed
<1>1. PICK outcome \in Told :
          Answer(s, outcome) /\ (outcome.named => Settles(m, outcome.certainty))
  <2>1. CASE Refuse(s)
    BY <2>1, OutcomesTyped DEF Refuse, NotAttempted, Outcome
  <2>2. CASE Fail(s)
    BY <2>2, OutcomesTyped DEF Fail, Outcome, Certainties
  <2>3. CASE LoseDispatch(s) \/ AwaitWinner(s)
    BY <2>3, OutcomesTyped, ClaimsNothing
    DEF LoseDispatch, AwaitWinner, Unknown, Outcome, Certainties
  <2>4. CASE Replay(s)
    <3>1. CASE Answer(s, Unknown)
      BY <3>1, OutcomesTyped, ClaimsNothing DEF Unknown, Outcome
    <3>2. CASE Answer(s, Outcome(Replayed(m), TRUE, FALSE))
      <4>1. Settles(m, Replayed(m))
        <5>1. MessageIsTrue(m)
          BY DEF MsgInv
        <5>2. CASE msg[m].status \in {"submitted", "delivered"}
          BY <5>1, <5>2 DEF MessageIsTrue, Settles, Replayed, Statuses
        <5>3. CASE msg[m].status = "failed"
          BY <5>1, <5>3 DEF MessageIsTrue, Settles, Replayed, Statuses, MessageStatus
        <5>4. CASE msg[m].status \notin {"submitted", "delivered", "failed"}
          BY <5>1, <5>4 DEF MessageIsTrue, Settles, Replayed
        <5> QED
          BY <5>2, <5>3, <5>4
      <4> QED
        <5>1. Outcome(Replayed(m), TRUE, FALSE) \in Told
          BY OutcomesTyped, ReplayedTyped
        <5>2. Outcome(Replayed(m), TRUE, FALSE).certainty = Replayed(m)
          BY DEF Outcome
        <5> QED
          BY <3>2, <4>1, <5>1, <5>2
    <3> QED
      BY <2>4, <3>1, <3>2 DEF Replay
  <2> QED
    BY <2>1, <2>2, <2>3, <2>4
<1>2. msg' = msg /\ said' = said /\ posts' = posts
  BY DEF Refuse, Fail, LoseDispatch, AwaitWinner, Replay, provider
<1>3. MessageIsTrue(m)'
  <2>1. NoDispatcher(m) => NoDispatcher(m)'
    BY <1>2 DEF NoDispatcher, Dispatching, Quiet
  <2> QED
    BY <1>2, <2>1, SameMessage DEF MsgInv
<1>4. Settles(m, outcome.certainty) => Settles(m, outcome.certainty)'
  BY <1>2 DEF Settles
<1> QED
  BY <1>1, <1>2, <1>3, <1>4, AnswerMsgStep

LEMMA ReserveKeepsMsgInv ==
    ASSUME Typed, DispatchInv, MsgInv, NEW s \in Senders, Reserve(s)
    PROVE  MsgInv'
<1> SUFFICES ASSUME NEW m \in Messages, work[s].m = m PROVE MsgInv'
  BY WorkTyped DEF Typed
<1>1. /\ UNCHANGED <<work, said, posts>> /\ pc'[s] \in {"fence", "replay"}
      /\ \A t \in Senders \ {s} : pc'[t] = pc[t]
  BY DEF Reserve, GoTo, Typed, TypeOK, provider
<1>2. \A t \in Senders : \/ pc'[t] = pc[t] /\ work'[t] = work[t]
                         \/ AnswerIsTrue(t)' /\ OutcomeIsTrue(t)'
  BY <1>1 DEF AnswerIsTrue, OutcomeIsTrue
<1>3. CASE msg[m] # NoMessage
  <2>1. msg' = msg /\ pc'[s] = "replay"
    BY <1>3 DEF Reserve, GoTo, Typed, TypeOK
  <2>2. Quiet
    BY <1>1, <2>1 DEF Quiet
  <2> QED
    BY <1>1, <1>2, <2>1, <2>2, UnwrittenMsgStep
<1>4. CASE msg[m] = NoMessage
  <2>1. /\ msg'[m].status = "dispatching" /\ msg'[m].provider = "none"
        /\ ~msg'[m].sid /\ msg'[m].reconcile = "no"
        /\ \A n \in Messages \ {m} : msg'[n] = msg[n]
    BY <1>4, StatusWritten DEF Reserve, Typed, NoMessage
  <2>2. MessageIsTrue(m)'
    BY <1>1, <2>1 DEF MsgInv, MessageIsTrue
  <2>3. \A n \in Messages \ {m} : NoDispatcher(n) => NoDispatcher(n)'
    BY <1>1 DEF NoDispatcher, Dispatching
  <2>4. \A n \in Messages : MessageIsTrue(n)'
    BY <1>1, <2>1, <2>2, <2>3, SameMessage DEF MsgInv
  <2>5. Lasting
    BY <1>1, <1>4, <2>1 DEF Lasting, NoMessage
  <2> QED
    BY <1>1, <1>2, <2>4, <2>5, MsgStep DEF Stands
<1> QED
  BY <1>3, <1>4

LEMMA FenceKeepsMsgInv ==
    ASSUME Typed, DispatchInv, MsgInv, Quiet, NEW s \in Senders, Fence(s)
    PROVE  MsgInv'
<1> SUFFICES ASSUME NEW m \in Messages, work[s].m = m PROVE MsgInv'
  BY WorkTyped DEF Typed
<1>1. said' = said /\ posts' = posts /\ Dispatching(s, m)
  BY DEF Fence, provider, Dispatching
<1>2. NoDispatcher(m) => NoDispatcher(m)'
  BY DEF NoDispatcher, Dispatching, Quiet
<1>3. CASE GoTo(s, "post") /\ UNCHANGED msg
  BY <1>1, <1>3, UnwrittenMsgStep DEF GoTo, AnswerIsTrue, OutcomeIsTrue, Typed, TypeOK
<1>4. CASE UNCHANGED msg /\ (Answer(s, Unknown) \/ Answer(s, NotAttempted))
  <2>1. MessageIsTrue(m)'
    BY <1>1, <1>2, <1>4, SameMessage DEF MsgInv
  <2>2. /\ NotAttempted.named = FALSE /\ Unknown.certainty = "outcome_unknown"
    BY DEF NotAttempted, Unknown, Outcome
  <2> QED
    BY <1>1, <1>4, <2>1, <2>2, OutcomesTyped, ClaimsNothing, AnswerMsgStep
<1>5. CASE /\ msg[m].status = "dispatching"
           /\ msg' = [msg EXCEPT ![m].status = "blocked"]
           /\ Answer(s, Outcome("not_attempted", TRUE, FALSE))
  <2>1. /\ msg'[m].status = "blocked" /\ msg'[m].provider = msg[m].provider
        /\ msg'[m].sid = msg[m].sid /\ msg'[m].reconcile = msg[m].reconcile
        /\ \A n \in Messages \ {m} : msg'[n] = msg[n]
    BY <1>5, StatusWritten DEF Typed
  <2>2. posts[m] = 0
    BY DEF Fence, DispatchInv, PostIsFirst
  <2>3. NoDispatcher(m)'
    <3>1. ~Dispatching(s, m)'
      BY <1>5, Answered, OutcomesTyped DEF Dispatching, Certainties
    <3>2. \A t \in Senders \ {s} : ~Dispatching(t, m)
      BY <1>1 DEF DispatchInv, OneDispatcher
    <3>3. \A t \in Senders : Dispatching(t, m)' => Dispatching(t, m)
      BY DEF Quiet, Dispatching
    <3> QED
      BY <3>1, <3>2, <3>3 DEF NoDispatcher
  <2>4. MessageIsTrue(m)'
    BY <1>1, <1>5, <2>1, <2>2, <2>3 DEF MsgInv, MessageIsTrue
  <2>5. Outcome("not_attempted", TRUE, FALSE) \in Told
    BY OutcomesTyped DEF Certainties
  <2>6. Settles(m, Outcome("not_attempted", TRUE, FALSE).certainty)'
    BY <2>1 DEF Settles, Outcome
  <2> QED
    BY <1>1, <1>5, <2>1, <2>4, <2>5, <2>6, AnswerMsgStep
<1> QED
  BY <1>3, <1>4, <1>5 DEF Fence

LEMMA SubmitKeepsMsgInv ==
    ASSUME Typed, DispatchInv, MsgInv, NEW s \in Senders, Submit(s)
    PROVE  MsgInv'
<1> SUFFICES ASSUME NEW m \in Messages, work[s].m = m PROVE MsgInv'
  BY WorkTyped DEF Typed
<1>1. PICK answer \in {"queued", "failed", "rejected"} :
          /\ said' = IF answer = "rejected" THEN said
                     ELSE [said EXCEPT ![m] = @ \cup {answer}]
          /\ work' = [work EXCEPT ![s].answer = answer]
  BY DEF Submit
<1>2. /\ Dispatching(s, m) /\ pc[s] = "post" /\ pc'[s] = "posted" /\ msg' = msg
      /\ \A t \in Senders \ {s} : pc'[t] = pc[t] /\ work'[t] = work[t]
      /\ work'[s].m = m /\ work'[s].answer = answer
      /\ \A n \in Messages \ {m} : posts'[n] = posts[n] /\ said'[n] = said[n]
      /\ said'[m] = IF answer = "rejected" THEN said[m] ELSE said[m] \cup {answer}
  BY <1>1 DEF Submit, Dispatching, Typed, TypeOK, WorkType
<1>3. said[m] = {}
  BY <1>2 DEF DispatchInv, PostIsFirst, SilentBeforePost
<1>4. msg[m].status \notin {"blocked", "rejected"}
  BY <1>2 DEF MsgInv, MessageIsTrue, NoDispatcher
<1>5. Lasting
  BY <1>2 DEF Lasting
<1>6. MessageIsTrue(m)'
  BY <1>2, <1>3, <1>4 DEF MsgInv, MessageIsTrue, Unresolved
<1>7. \A n \in Messages \ {m} : MessageIsTrue(n)'
  <2>1. \A n \in Messages : NoDispatcher(n) => NoDispatcher(n)'
    BY <1>2 DEF NoDispatcher, Dispatching
  <2> QED
    BY <1>2, <2>1, SameMessage DEF MsgInv
<1>8. AnswerIsTrue(s)' /\ OutcomeIsTrue(s)'
  BY <1>2, <1>3 DEF AnswerIsTrue, OutcomeIsTrue
<1>9. ASSUME NEW t \in Senders, t # s PROVE Stands(t)
  <2>1. pc[t] = "posted" => work[t].m # m
    BY <1>2, <1>9 DEF DispatchInv, OneDispatcher, Dispatching
  <2> QED
    BY <1>2, <1>9, <2>1, WorkTyped DEF Stands, Typed
<1> QED
  BY <1>5, <1>6, <1>7, <1>8, <1>9, MsgStep

LEMMA RecordAnswerKeepsMsgInv ==
    ASSUME Typed, DispatchInv, MsgInv, Quiet, NEW s \in Senders, RecordAnswer(s)
    PROVE  MsgInv'
<1> SUFFICES ASSUME NEW m \in Messages, work[s].m = m,
                    NEW answer, work[s].answer = answer
             PROVE  MsgInv'
  BY WorkTyped DEF Typed
<1>1. /\ said' = said /\ posts' = posts /\ pc[s] = "posted" /\ Dispatching(s, m)
      /\ msg[m].status = "dispatching"
  BY DEF RecordAnswer, StillDispatching, provider, Dispatching
<1>2. MessageIsTrue(m) /\ AnswerIsTrue(s)
  BY DEF MsgInv
<1>3. CASE answer = "rejected"
  <2>1. /\ \A n \in Messages \ {m} : msg'[n] = msg[n]
        /\ msg'[m].status = "rejected" /\ msg'[m].sid = msg[m].sid
        /\ msg'[m].provider = msg[m].provider /\ msg'[m].reconcile = msg[m].reconcile
    BY <1>3, AnswerWritten
  <2>2. Answer(s, Outcome("provider_rejected", TRUE, FALSE))
    BY <1>3 DEF RecordAnswer
  <2>3. Outcome("provider_rejected", TRUE, FALSE) \in Told
    BY OutcomesTyped DEF Certainties
  <2>4. NoDispatcher(m)'
    <3>1. ~Dispatching(s, m)'
      BY <2>2, <2>3, Answered DEF Dispatching
    <3>2. \A t \in Senders \ {s} : ~Dispatching(t, m)
      BY <1>1 DEF DispatchInv, OneDispatcher
    <3>3. \A t \in Senders : Dispatching(t, m)' => Dispatching(t, m)
      BY DEF Quiet, Dispatching
    <3> QED
      BY <3>1, <3>2, <3>3 DEF NoDispatcher
  <2>5. MessageIsTrue(m)'
    BY <1>1, <1>2, <1>3, <2>1, <2>4 DEF MessageIsTrue, AnswerIsTrue
  <2>6. Settles(m, Outcome("provider_rejected", TRUE, FALSE).certainty)'
    BY <2>1 DEF Settles, Outcome
  <2> QED
    BY <1>1, <2>1, <2>2, <2>3, <2>5, <2>6, AnswerMsgStep
<1>4. CASE answer # "rejected"
  <2>1. answer \in said[m] /\ answer \in {"queued", "failed"}
    BY <1>1, <1>2, <1>4 DEF AnswerIsTrue
  <2>2. /\ \A n \in Messages \ {m} : msg'[n] = msg[n]
        /\ msg'[m].status = MessageStatus(answer)
        /\ msg'[m].status \in {"submitted", "delivered", "failed"}
        /\ msg'[m].provider = answer /\ msg'[m].reconcile = msg[m].reconcile
    BY <1>4, AnswerWritten
  <2>3. Answer(s, Outcome(CertaintyOf(answer), TRUE, FALSE))
    BY <1>4 DEF RecordAnswer
  <2>4. Outcome(CertaintyOf(answer), TRUE, FALSE) \in Told
    <3>1. CertaintyOf(answer) \in Certainties
      BY <2>1, StatusTypes DEF Statuses, Certainties
    <3> QED
      BY <3>1, OutcomesTyped
  <2>5. MessageIsTrue(m)'
    <3>1. answer \in Statuses /\ answer # "none"
      BY <2>1 DEF Statuses
    <3> QED
      BY <1>1, <1>2, <2>1, <2>2, <3>1 DEF MessageIsTrue, Unresolved
  <2>6. Settles(m, Outcome(CertaintyOf(answer), TRUE, FALSE).certainty)'
    BY <1>1, <2>1 DEF Settles, Outcome, CertaintyOf
  <2> QED
    BY <1>1, <2>2, <2>3, <2>4, <2>5, <2>6, AnswerMsgStep
<1> QED
  BY <1>3, <1>4

\* A dispatch that is declared unknown.
LEMMA MarkedIsTrue ==
    ASSUME Typed, MsgInv, NEW m \in Messages, NEW sid \in BOOLEAN,
           NEW status \in Statuses \cup {"none"}, MarkUnknown(m, sid, status),
           status # "none" => status \in said[m], said' = said
    PROVE  MessageIsTrue(m)'
<1>1. /\ msg'[m].status = "provider_unknown" /\ msg'[m].provider = status
  BY Marked DEF Typed
<1> QED
  BY <1>1 DEF MsgInv, MessageIsTrue

LEMMA LossKeepsMsgInv ==
    ASSUME Typed, DispatchInv, MsgInv, Quiet, NEW s \in Senders,
           LoseAnswer(s) \/ ReplayExpired(s)
    PROVE  MsgInv'
<1> SUFFICES ASSUME NEW m \in Messages, work[s].m = m PROVE MsgInv'
  BY WorkTyped DEF Typed
<1>1. /\ said' = said /\ posts' = posts /\ Answer(s, Unknown)
      /\ msg[m].status = "dispatching"
  BY DEF LoseAnswer, ReplayExpired, StillDispatching, provider
<1>2. \/ msg' = msg
      \/ \E sid \in BOOLEAN, status \in Statuses \cup {"none"} :
            MarkUnknown(m, sid, status) /\ (status # "none" => status \in said[m])
  <2>1. CASE ReplayExpired(s)
    BY <2>1 DEF ReplayExpired
  <2>2. CASE LoseAnswer(s)
    <3>1. work[s].answer # "rejected" => work[s].answer \in said[m] \cap Statuses
      BY <2>2 DEF LoseAnswer, StillDispatching, MsgInv, AnswerIsTrue, Statuses
    <3> QED
      BY <2>2, <3>1 DEF LoseAnswer
  <2> QED
    BY <2>1, <2>2
<1>3. /\ MessageIsTrue(m)'
      /\ \A n \in Messages \ {m} : msg'[n] = msg[n]
  <2>1. CASE msg' = msg
    <3>1. NoDispatcher(m) => NoDispatcher(m)'
      BY DEF NoDispatcher, Dispatching, Quiet
    <3> QED
      BY <1>1, <2>1, <3>1, SameMessage DEF MsgInv
  <2>2. CASE msg' # msg
    BY <1>1, <1>2, <2>2, Marked, MarkedIsTrue DEF Typed
  <2> QED
    BY <2>1, <2>2
<1>4. Settles(m, Unknown.certainty)'
  BY ClaimsNothing DEF Unknown, Outcome
<1> QED
  BY <1>1, <1>3, <1>4, OutcomesTyped, AnswerMsgStep

\* A step of nobody's, that writes one message.
LEMMA OutsideMsgStep ==
    ASSUME Typed, MsgInv, Quiet, UNCHANGED senders, said' = said, NEW m \in Messages,
           \A n \in Messages \ {m} : msg'[n] = msg[n],
           msg[m].status \notin {"blocked", "rejected"}, MessageIsTrue(m)'
    PROVE  MsgInv'
  BY QuietMsgStep DEF senders

LEMMA SweepKeepsMsgInv ==
    ASSUME Typed, MsgInv, Quiet, NEW m \in Messages, Sweep(m)
    PROVE  MsgInv'
<1>1. UNCHANGED senders /\ said' = said
  BY DEF Sweep, provider
<1>2. CASE msg[m].status = "dispatching" /\ MarkUnknown(m, FALSE, "none")
  BY <1>1, <1>2, Marked, MarkedIsTrue, OutsideMsgStep DEF Typed
<1>3. CASE /\ msg[m].status = "submitted"
           /\ msg' = [msg EXCEPT ![m].reconcile = "required"]
  <2>1. /\ \A n \in Messages \ {m} : msg'[n] = msg[n]
        /\ msg'[m].status = msg[m].status /\ msg'[m].provider = msg[m].provider
    BY <1>3, OverdueWritten
  <2>2. MessageIsTrue(m)'
    BY <1>1, <1>3, <2>1 DEF MsgInv, MessageIsTrue
  <2> QED
    BY <1>1, <1>3, <2>1, <2>2, OutsideMsgStep
<1> QED
  BY <1>2, <1>3 DEF Sweep

LEMMA AttestKeepsMsgInv ==
    ASSUME Typed, MsgInv, Quiet, NEW m \in Messages, Attest(m)
    PROVE  MsgInv'
<1>1. UNCHANGED senders /\ said' = said /\ msg[m].reconcile = "required"
  BY DEF Attest, provider, Unresolved
<1>2. /\ \A n \in Messages \ {m} : msg'[n] = msg[n]
      /\ msg'[m].status = "provider_unknown" /\ msg'[m].provider = msg[m].provider
  BY StatusWritten DEF Attest, Typed
<1>3. MessageIsTrue(m)' /\ msg[m].status \notin {"blocked", "rejected"}
  BY <1>1, <1>2 DEF MsgInv, MessageIsTrue
<1> QED
  BY <1>1, <1>2, <1>3, OutsideMsgStep

LEMMA LearnKeepsMsgInv ==
    ASSUME Typed, MsgInv, Quiet, NEW m \in Messages, NEW status \in said[m],
           status \in Statuses, Learn(m, status), UNCHANGED senders, said' = said,
           msg[m].status \notin {"blocked", "rejected"}
    PROVE  MsgInv'
<1>1. /\ msg'[m].status = MessageStatus(status) /\ msg'[m].provider = status
      /\ msg'[m].status \in {"submitted", "delivered", "failed"}
      /\ msg'[m].reconcile # "required"
      /\ \A n \in Messages \ {m} : msg'[n] = msg[n]
  BY Learned DEF Typed
<1>2. MessageIsTrue(m)'
  BY <1>1 DEF MsgInv, MessageIsTrue, Unresolved
<1> QED
  BY <1>1, <1>2, OutsideMsgStep

LEMMA ProviderKeepsMsgInv ==
    ASSUME Typed, MsgInv, NEW m \in Messages, NEW status \in Statuses,
           ProviderMoves(m, status)
    PROVE  MsgInv'
<1>1. /\ UNCHANGED <<senders, msg, posts>> /\ said[m] # {}
      /\ \A n \in Messages \ {m} : said'[n] = said[n]
      /\ said'[m] = said[m] \cup {status} /\ (status = "read" => "delivered" \in said[m])
  BY DEF ProviderMoves, Typed, TypeOK
<1>2. \A n \in Messages : NoDispatcher(n) => NoDispatcher(n)'
  BY <1>1 DEF NoDispatcher, Dispatching, senders
<1>3. MessageIsTrue(m)'
  BY <1>1, <1>2 DEF MsgInv, MessageIsTrue, Unresolved
<1>4. \A n \in Messages : MessageIsTrue(n)'
  BY <1>1, <1>2, <1>3, SameMessage DEF MsgInv
<1>5. Lasting /\ \A t \in Senders : Stands(t)
  BY <1>1, WorkTyped DEF Lasting, Stands, senders, Typed
<1> QED
  BY <1>4, <1>5, MsgStep

LEMMA NextKeepsMsgInv == Typed /\ DispatchInv /\ MsgInv /\ [Next]_vars => MsgInv'
<1> SUFFICES ASSUME Typed, DispatchInv, MsgInv, [Next]_vars,
                    \A s \in Senders : ~Reserve(s) /\ ~Submit(s)
             PROVE  MsgInv'
  BY ReserveKeepsMsgInv, SubmitKeepsMsgInv
<1>1. Quiet
  BY OtherStepsAreQuiet
<1>2. CASE \/ Approve \/ Cancel \/ \E to \in {"review", "in_progress"} : MoveTask(to)
           \/ \E m \in Messages : Terminalize(m)
           \/ UNCHANGED vars
  BY <1>1, <1>2, UnwrittenMsgStep
  DEF Approve, Cancel, MoveTask, Terminalize, vars, provider, senders
<1>3. CASE \E s \in Senders, m \in Messages : ClaimRun(s, m) \/ RefuseRun(s, m)
  BY <1>1, <1>3, UnwrittenMsgStep
  DEF ClaimRun, RefuseRun, provider, senders, AnswerIsTrue, OutcomeIsTrue, Typed, TypeOK
<1>4. CASE \E s \in Senders : RecordOutcome(s) \/ Post(s) \/ Crash(s)
  BY <1>1, <1>4, UnwrittenMsgStep
  DEF RecordOutcome, Post, Crash, provider, AnswerIsTrue, OutcomeIsTrue, Typed, TypeOK
<1>5. CASE \E m \in Messages : LookUp(m)
  <2> PICK m \in Messages : LookUp(m)
    BY <1>5
  <2>1. Latest(m) \in said[m] /\ said[m] \subseteq Statuses
    BY LatestIsSaid DEF LookUp, Typed, TypeOK
  <2>2. msg[m].status \notin {"blocked", "rejected"}
    BY DEF LookUp, Unresolved, MsgInv, MessageIsTrue
  <2> QED
    BY <1>1, <2>1, <2>2, LearnKeepsMsgInv DEF LookUp, provider
<1>6. CASE \E m \in Messages, status \in Statuses : ApplyStatus(m, status)
  BY <1>1, <1>6, LearnKeepsMsgInv DEF ApplyStatus, provider, MsgInv, MessageIsTrue
<1> QED
  BY <1>1, <1>2, <1>3, <1>4, <1>5, <1>6, ReadersKeepMsgInv, FenceKeepsMsgInv,
     RecordAnswerKeepsMsgInv, LossKeepsMsgInv, SweepKeepsMsgInv, AttestKeepsMsgInv,
     ProviderKeepsMsgInv
  DEF Next, JobStep, Dispatch

-------------------------------------------------------------------------------
(***************************************************************************)
(* What any step does to a message and to its dispatch.                    *)
(***************************************************************************)
Believed == Typed /\ DispatchInv /\ MsgInv

\* A delivery that is settled stays settled.
SettledMessage ==
    \A m \in Messages :
        msg[m].status \in {"delivered", "failed"} => msg'[m].status = msg[m].status

\* Only a reservation begins a row; a row becomes unknown only with the
\* evidence on its run.
RowStep(m) ==
    /\ msg[m].status = "none" /\ msg'[m].status # "none" =>
          \E s \in Senders : Reserve(s) /\ work[s].m = m
    /\ msg'[m].status = "provider_unknown" /\ msg[m].status # "provider_unknown"
          /\ HasRun(m) => run'[m] = Evidence

MsgFacts == Lasting /\ SettledMessage /\ \A m \in Messages : RowStep(m)

\* All but one message are as they were.
LEMMA OneRowStep ==
    ASSUME NEW m \in Messages, \A n \in Messages \ {m} : msg'[n] = msg[n],
           \A n \in Messages : said[n] \subseteq said'[n],
           msg[m].status \in {"blocked", "rejected", "delivered", "failed"} =>
               msg'[m].status = msg[m].status,
           RowStep(m)
    PROVE  MsgFacts
<1>1. \A n \in Messages \ {m} : RowStep(n)
  BY DEF RowStep
<1> QED
  BY <1>1 DEF MsgFacts, Lasting, SettledMessage

\* A status that may follow a settled one settles the same.
LEMMA LearnedAfterSettled ==
    ASSUME NEW current \in Statuses, NEW status \in Statuses,
           TransitionAllowed(current, status),
           MessageStatus(current) \in {"delivered", "failed"}
    PROVE  MessageStatus(status) = MessageStatus(current)
  BY DEF TransitionAllowed, MessageStatus, Statuses, Final

LEMMA LearnFacts ==
    ASSUME Believed, NEW m \in Messages, NEW status \in Statuses, Learn(m, status),
           said' = said, msg[m].status # "none",
           msg[m].status \notin {"blocked", "rejected"},
           msg[m].status \in {"delivered", "failed"} =>
               MessageStatus(status) = msg[m].status
    PROVE  MsgFacts
<1>1. /\ msg'[m].status = MessageStatus(status)
      /\ msg'[m].status \in {"submitted", "delivered", "failed"}
      /\ \A n \in Messages \ {m} : msg'[n] = msg[n]
  BY Learned DEF Believed, Typed
<1>2. RowStep(m)
  BY <1>1 DEF RowStep
<1> QED
  BY <1>1, <1>2, OneRowStep

LEMMA NextMsgFacts == Believed /\ [Next]_vars => MsgFacts
<1> SUFFICES ASSUME Believed, [Next]_vars PROVE MsgFacts
  OBVIOUS
<1>0. /\ \A m \in Messages : MessageIsTrue(m)
      /\ \A s \in Senders : work[s].m \in Messages
  BY WorkTyped DEF Believed, MsgInv, Typed
<1>1. CASE UNCHANGED <<msg, said>>
  BY <1>1 DEF MsgFacts, Lasting, SettledMessage, RowStep
<1>2. ASSUME NEW s \in Senders, Reserve(s) PROVE MsgFacts
  <2>1. CASE msg' = msg
    BY <1>1, <1>2, <2>1 DEF Reserve, provider
  <2>2. CASE msg[work[s].m] = NoMessage
    <3>1. /\ msg'[work[s].m].status = "dispatching" /\ said' = said
          /\ \A n \in Messages \ {work[s].m} : msg'[n] = msg[n]
      BY <1>0, <1>2, <2>2, StatusWritten DEF Reserve, Believed, Typed, provider
    <3>2. RowStep(work[s].m) /\ msg[work[s].m].status = "none"
      BY <1>2, <2>2, <3>1 DEF RowStep, NoMessage
    <3> QED
      BY <1>0, <3>1, <3>2, OneRowStep
  <2> QED
    BY <1>2, <2>1, <2>2 DEF Reserve
<1>3. ASSUME NEW s \in Senders, Fence(s) PROVE MsgFacts
  <2>1. CASE msg' = msg
    BY <1>1, <1>3, <2>1 DEF Fence, provider
  <2>2. CASE /\ msg[work[s].m].status = "dispatching"
             /\ msg' = [msg EXCEPT ![work[s].m].status = "blocked"]
    <3>1. /\ msg'[work[s].m].status = "blocked" /\ said' = said
          /\ \A n \in Messages \ {work[s].m} : msg'[n] = msg[n]
      BY <1>0, <1>3, <2>2, StatusWritten DEF Fence, Believed, Typed, provider
    <3>2. RowStep(work[s].m)
      BY <2>2, <3>1 DEF RowStep
    <3> QED
      BY <1>0, <2>2, <3>1, <3>2, OneRowStep
  <2> QED
    BY <1>3, <2>1, <2>2 DEF Fence
<1>4. ASSUME NEW s \in Senders, Submit(s) PROVE MsgFacts
  <2>1. msg' = msg /\ \A m \in Messages : said[m] \subseteq said'[m]
    BY <1>4 DEF Submit, Believed, Typed, TypeOK
  <2> QED
    BY <2>1 DEF MsgFacts, Lasting, SettledMessage, RowStep
<1>5. ASSUME NEW s \in Senders, RecordAnswer(s) PROVE MsgFacts
  <2>1. /\ msg[work[s].m].status = "dispatching" /\ said' = said
        /\ msg'[work[s].m].status # "provider_unknown"
        /\ \A n \in Messages \ {work[s].m} : msg'[n] = msg[n]
    BY <1>5, AnswerWritten DEF RecordAnswer, StillDispatching, Believed, provider
  <2>2. RowStep(work[s].m)
    BY <2>1 DEF RowStep
  <2> QED
    BY <1>0, <2>1, <2>2, OneRowStep
<1>6. ASSUME NEW m \in Messages, NEW sid \in BOOLEAN,
             NEW status \in Statuses \cup {"none"}, MarkUnknown(m, sid, status),
             KeepEvidence(m), msg[m].status = "dispatching", said' = said
      PROVE  MsgFacts
  <2>1. /\ HasRun(m) => run'[m] = Evidence
        /\ \A n \in Messages \ {m} : msg'[n] = msg[n]
    BY <1>6, Marked, EvidenceKept DEF Believed, Typed
  <2>2. RowStep(m)
    BY <1>6, <2>1 DEF RowStep
  <2> QED
    BY <1>6, <2>1, <2>2, OneRowStep
<1>7. ASSUME NEW s \in Senders, LoseAnswer(s) \/ ReplayExpired(s) PROVE MsgFacts
  <2>1. CASE msg' = msg
    BY <1>1, <1>7, <2>1 DEF LoseAnswer, ReplayExpired, provider
  <2>2. CASE msg' # msg
    <3>1. \E sid \in BOOLEAN, status \in Statuses \cup {"none"} :
             MarkUnknown(work[s].m, sid, status)
      BY <1>7, <2>2, WorkTyped
      DEF LoseAnswer, ReplayExpired, Believed, Typed, Statuses
    <3>2. /\ KeepEvidence(work[s].m) /\ msg[work[s].m].status = "dispatching"
          /\ said' = said
      BY <1>7, <2>2 DEF LoseAnswer, ReplayExpired, StillDispatching, provider
    <3> QED
      BY <1>0, <1>6, <3>1, <3>2
  <2> QED
    BY <2>1, <2>2
<1>8. ASSUME NEW m \in Messages, Sweep(m) PROVE MsgFacts
  <2>1. CASE msg[m].status = "dispatching" /\ MarkUnknown(m, FALSE, "none") /\ KeepEvidence(m)
    BY <1>6, <1>8, <2>1 DEF Sweep, provider
  <2>2. CASE /\ msg[m].status = "submitted"
             /\ msg' = [msg EXCEPT ![m].reconcile = "required"]
    <3>1. /\ \A n \in Messages \ {m} : msg'[n] = msg[n]
          /\ msg'[m].status = msg[m].status
      BY <2>2, OverdueWritten DEF Believed
    <3>2. RowStep(m)
      BY <3>1 DEF RowStep
    <3> QED
      BY <1>8, <3>1, <3>2, OneRowStep DEF Sweep, provider
  <2> QED
    BY <1>8, <2>1, <2>2 DEF Sweep
<1>9. ASSUME NEW m \in Messages, Attest(m) PROVE MsgFacts
  <2>1. /\ \A n \in Messages \ {m} : msg'[n] = msg[n]
        /\ msg'[m].status = "provider_unknown" /\ said' = said
    BY <1>9, StatusWritten DEF Attest, Believed, Typed, provider
  <2>2. msg[m].status \notin {"none", "blocked", "rejected", "delivered", "failed"}
    BY <1>0, <1>9
    DEF Attest, Unresolved, MessageIsTrue, Believed, DispatchInv, FreshIsUntouched, NoMessage
  <2>3. RowStep(m)
    BY <1>9, <2>2, EvidenceKept DEF RowStep, Attest, Believed, Typed
  <2> QED
    BY <2>1, <2>2, <2>3, OneRowStep
<1>10. ASSUME NEW m \in Messages, LookUp(m) PROVE MsgFacts
  <2>1. Latest(m) \in Statuses
    BY <1>10, LatestIsSaid DEF LookUp, Believed, Typed, TypeOK
  <2>2. msg[m].status \notin {"none", "blocked", "rejected", "delivered", "failed"}
    BY <1>0, <1>10
    DEF LookUp, Unresolved, MessageIsTrue, Believed, DispatchInv, FreshIsUntouched, NoMessage
  <2> QED
    BY <1>10, <2>1, <2>2, LearnFacts DEF LookUp, provider
<1>11. ASSUME NEW m \in Messages, NEW status \in Statuses, ApplyStatus(m, status)
       PROVE  MsgFacts
  <2>1. msg[m].status \notin {"none", "blocked", "rejected"}
    BY <1>0, <1>11
    DEF ApplyStatus, MessageIsTrue, Believed, DispatchInv, FreshIsUntouched, NoMessage
  <2>2. msg[m].status \in {"delivered", "failed"} => MessageStatus(status) = msg[m].status
    BY <1>0, <1>11, LearnedAfterSettled DEF ApplyStatus, MessageIsTrue
  <2> QED
    BY <1>11, <2>1, <2>2, LearnFacts DEF ApplyStatus, provider
<1>12. ASSUME NEW m \in Messages, NEW status \in Statuses, ProviderMoves(m, status)
       PROVE  MsgFacts
  <2>1. msg' = msg /\ \A n \in Messages : said[n] \subseteq said'[n]
    BY <1>12 DEF ProviderMoves, Believed, Typed, TypeOK
  <2> QED
    BY <2>1 DEF MsgFacts, Lasting, SettledMessage, RowStep
<1>13. ASSUME ~UNCHANGED <<msg, said>>, NEW s \in Senders
       PROVE  ~(JobStep(s) \/ Post(s) \/ Fail(s) \/ Crash(s))
              /\ ~(Refuse(s) \/ LoseDispatch(s) \/ AwaitWinner(s) \/ Replay(s))
  BY <1>13
  DEF JobStep, RecordOutcome, ClaimRun, RefuseRun, Post, Fail, Crash, Refuse, LoseDispatch,
      AwaitWinner, Replay, provider
<1>14. ASSUME ~UNCHANGED <<msg, said>>
       PROVE  /\ ~UNCHANGED vars /\ ~Approve /\ ~Cancel
              /\ ~\E to \in {"review", "in_progress"} : MoveTask(to)
              /\ ~\E m \in Messages : Terminalize(m)
  BY <1>14 DEF vars, Approve, Cancel, MoveTask, Terminalize, provider
<1> QED
  BY <1>1, <1>2, <1>3, <1>4, <1>5, <1>7, <1>8, <1>9, <1>10, <1>11, <1>12, <1>13, <1>14
  DEF Next, Dispatch

\* A message that nobody dispatches is not posted, and once it is reserved
\* nobody dispatches it again.
DispatchEnds ==
    \A m \in Messages : NoDispatcher(m) =>
        /\ posts'[m] = posts[m]
        /\ msg[m].status # "none" => NoDispatcher(m)'

LEMMA NextDispatchEnds == Believed /\ [Next]_vars => DispatchEnds
<1> SUFFICES ASSUME Believed, [Next]_vars PROVE DispatchEnds
  OBVIOUS
<1>1. CASE Quiet
  BY <1>1 DEF Quiet, DispatchEnds, NoDispatcher, Dispatching
<1>2. ASSUME NEW s \in Senders, Reserve(s) PROVE DispatchEnds
  <2>1. /\ UNCHANGED <<work, said, posts>> /\ \A t \in Senders \ {s} : pc'[t] = pc[t]
        /\ pc'[s] = "fence" => msg[work[s].m] = NoMessage
    BY <1>2 DEF Reserve, GoTo, Believed, Typed, TypeOK, provider
  <2>2. pc'[s] \in {"fence", "replay"}
    BY <1>2 DEF Reserve, GoTo, Believed, Typed, TypeOK
  <2> QED
    BY <2>1, <2>2 DEF DispatchEnds, NoDispatcher, Dispatching, NoMessage
<1>3. ASSUME NEW s \in Senders, Submit(s) PROVE DispatchEnds
  <2>1. /\ Dispatching(s, work[s].m)
        /\ \A t \in Senders : work'[t].m = work[t].m
        /\ \A t \in Senders \ {s} : pc'[t] = pc[t]
        /\ \A n \in Messages \ {work[s].m} : posts'[n] = posts[n] /\ said'[n] = said[n]
    BY <1>3, WorkTyped DEF Submit, Dispatching, Believed, Typed, TypeOK, WorkType
  <2> QED
    BY <2>1 DEF DispatchEnds, NoDispatcher, Dispatching
<1> QED
  BY <1>1, <1>2, <1>3, OtherStepsAreQuiet DEF Believed

-------------------------------------------------------------------------------
(***************************************************************************)
(* The runs of a task and the jobs that deliver them.                      *)
(***************************************************************************)
\* The handlers of a request have no runs.
RequestHasNoRun ==
    origin = "request" =>
        /\ made = 0 /\ \A m \in Messages : run[m] = NoRun
        /\ \A s \in Senders : pc[s] # "finish"

LEMMA NextRequestHasNoRun ==
    Believed /\ RequestHasNoRun /\ [Next]_vars => RequestHasNoRun' /\ origin' = origin
<1> SUFFICES ASSUME Believed, RequestHasNoRun, [Next]_vars
             PROVE  RequestHasNoRun' /\ origin' = origin
  OBVIOUS
<1>1. origin' = origin
  BY DEF Next, JobStep, Dispatch, Approve, Cancel, MoveTask, RecordOutcome, ClaimRun,
         RefuseRun, Refuse, Reserve, Fence, Submit, RecordAnswer, LoseAnswer, LoseDispatch,
         AwaitWinner, ReplayExpired, Replay, Post, Fail, Crash, Terminalize, Sweep, Attest,
         LookUp, ProviderMoves, ApplyStatus, vars, taskVars
<1> SUFFICES ASSUME origin = "request"
             PROVE  /\ made' = made /\ run' = run
                    /\ \A s \in Senders : pc'[s] # "finish"
  BY <1>1 DEF RequestHasNoRun
<1>2. /\ \A m \in Messages : run[m] = NoRun /\ ~HasRun(m)
      /\ \A s \in Senders : pc[s] # "finish"
  BY DEF RequestHasNoRun, NoRun, HasRun
<1>3. made' = made
  BY DEF Next, JobStep, Dispatch, Approve, Cancel, MoveTask, RecordOutcome, ClaimRun,
         RefuseRun, Refuse, Reserve, Fence, Submit, RecordAnswer, LoseAnswer, LoseDispatch,
         AwaitWinner, ReplayExpired, Replay, Post, Fail, Crash, Terminalize, Sweep, Attest,
         LookUp, ProviderMoves, ApplyStatus, vars, taskVars
<1>4. run' = run
  <2>1. \A m \in Messages : /\ run[m].status \notin {"queued", "sending"}
                            /\ KeepEvidence(m) => run' = run
                            /\ \A status \in Statuses : Learn(m, status) => run' = run
    BY <1>2 DEF KeepEvidence, Learn, NoRun
  <2>2. \A m \in Messages : LookUp(m) => Latest(m) \in Statuses
    BY LatestIsSaid DEF LookUp, Believed, Typed, TypeOK
  <2>3. \A s \in Senders : work[s].m \in Messages /\ ~RecordOutcome(s)
    BY <1>2, WorkTyped DEF RecordOutcome, Believed, Typed
  <2>4. CASE Approve \/ Cancel \/ (\E to \in {"review", "in_progress"} : MoveTask(to))
             \/ UNCHANGED vars
    BY <2>4 DEF Approve, Cancel, MoveTask, vars
  <2>5. ASSUME NEW s \in Senders, JobStep(s) \/ Post(s) \/ Fail(s) \/ Crash(s)
        PROVE  run' = run
    BY <2>1, <2>3, <2>5 DEF JobStep, ClaimRun, RefuseRun, Post, Fail, Crash
  <2>6. ASSUME NEW s \in Senders, Dispatch(s)
        PROVE  run' = run
    BY <2>1, <2>3, <2>6
    DEF Dispatch, Refuse, Reserve, Fence, Submit, RecordAnswer, LoseAnswer, LoseDispatch,
        AwaitWinner, ReplayExpired, Replay
  <2>7. ASSUME NEW m \in Messages, Terminalize(m) \/ Sweep(m) \/ Attest(m) \/ LookUp(m)
        PROVE  run' = run
    BY <2>1, <2>2, <2>7 DEF Terminalize, Sweep, Attest, LookUp
  <2>8. ASSUME NEW m \in Messages, NEW status \in Statuses,
               ProviderMoves(m, status) \/ ApplyStatus(m, status)
        PROVE  run' = run
    BY <2>1, <2>8 DEF ProviderMoves, ApplyStatus
  <2> QED
    BY <2>4, <2>5, <2>6, <2>7, <2>8 DEF Next
<1>5. \A s \in Senders : pc'[s] # "finish"
  <2>1. CASE UNCHANGED senders
    BY <1>2, <2>1 DEF senders
  <2>2. ASSUME NEW s \in Senders, NEW outcome, Answer(s, outcome)
        PROVE  \A t \in Senders : pc'[t] # "finish"
    BY <1>2, <2>2 DEF Answer, Believed, Typed, TypeOK
  <2>3. ASSUME NEW s \in Senders, JobStep(s) \/ Post(s) \/ Crash(s) \/ Submit(s)
        PROVE  \A t \in Senders : pc'[t] # "finish"
    BY <1>2, <2>1, <2>3
    DEF JobStep, RecordOutcome, ClaimRun, RefuseRun, Post, Crash, Submit, Believed, Typed,
        TypeOK
  <2>4. ASSUME NEW s \in Senders, Reserve(s) \/ Fence(s)
        PROVE  \A t \in Senders : pc'[t] # "finish"
    <3>1. ASSUME NEW place, GoTo(s, place), place # "finish"
          PROVE  \A t \in Senders : pc'[t] # "finish"
      BY <1>2, <3>1 DEF GoTo, Believed, Typed, TypeOK
    <3> QED
      BY <2>2, <2>4, <3>1 DEF Reserve, Fence
  <2>5. ASSUME NEW s \in Senders, Dispatch(s) \/ Fail(s)
        PROVE  \A t \in Senders : pc'[t] # "finish"
    BY <2>2, <2>3, <2>4, <2>5
    DEF Dispatch, Refuse, Fail, RecordAnswer, LoseAnswer, LoseDispatch, AwaitWinner,
        ReplayExpired, Replay
  <2>6. ASSUME NEW m \in Messages,
               \/ Terminalize(m) \/ Sweep(m) \/ Attest(m) \/ LookUp(m)
               \/ \E status \in Statuses : ProviderMoves(m, status) \/ ApplyStatus(m, status)
        PROVE  UNCHANGED senders
    BY <2>6 DEF Terminalize, Sweep, Attest, LookUp, ProviderMoves, ApplyStatus
  <2>7. CASE Approve \/ Cancel \/ (\E to \in {"review", "in_progress"} : MoveTask(to))
             \/ UNCHANGED vars
    BY <2>1, <2>7 DEF Approve, Cancel, MoveTask, vars
  <2> QED
    BY <2>1, <2>3, <2>5, <2>6, <2>7 DEF Next
<1> QED
  BY <1>3, <1>4, <1>5

\* A sender works on m from its claim of the run to the outcome it records.
Working(s, m) == pc[s] # "idle" /\ work[s].m = m
NoWorker(m) == \A s \in Senders : ~Working(s, m)

\* A job's run has been claimed; while it looks its message up, there is none;
\* if its outcome does not name the message, nothing went out.
JobIsTrue(s) ==
    /\ pc[s] \notin {"replay", "done"}
    /\ pc[s] # "idle" => run[work[s].m].status \notin {"absent", "queued"}
    /\ pc[s] = "lookup" => msg[work[s].m].status = "none"
    /\ pc[s] = "finish" /\ ~work[s].outcome.named =>
          /\ posts[work[s].m] = 0
          /\ work[s].outcome.certainty \in {"not_attempted", "outcome_unknown"}

\* Only a queued run is claimed, and nobody works on it.
OneWorker ==
    \A m \in Messages : \A s, t \in Senders : Working(s, m) /\ Working(t, m) => s = t

JobInv == origin = "task" => OneWorker /\ \A s \in Senders : JobIsTrue(s)

\* The runs are those of the drafts approved so far; one that is not claimed
\* has no message.
RunIsFresh(m) ==
    /\ run[m].status = "absent" <=> m > made
    /\ run[m].status \in {"absent", "queued", "sending"} =>
          run[m].certainty = "not_attempted" /\ ~run[m].required
    /\ run[m].status \in {"absent", "queued"} => msg[m].status = "none"

\* An ended run says no more than the provider, and nobody sends after it says
\* that nothing was attempted.
RunIsTrue(m) ==
    /\ run[m].status \in {"submitted", "sent", "failed"} =>
          IF run[m].certainty = "not_attempted" THEN posts[m] = 0 /\ NoWorker(m)
          ELSE Settles(m, run[m].certainty)
    /\ run[m].status = "sent" => run[m].bound /\ msg[m].status = "delivered"

UnknownIsEvident(m) ==
    msg[m].status = "provider_unknown" /\ HasRun(m) =>
        run[m] = Evidence \/ (posts[m] = 0 /\ NoDispatcher(m))

CancelledIsIdle ==
    task = "cancelled" /\ made > 0 => posts[made] = 0 /\ NoWorker(made)

RunInv == origin = "task" =>
              /\ CancelledIsIdle
              /\ \A m \in Messages : RunIsFresh(m) /\ RunIsTrue(m) /\ UnknownIsEvident(m)

Known == Believed /\ JobInv /\ RunInv /\ origin = "task"

\* What a step does to a sender.
SenderStep(t) ==
    \/ pc'[t] = pc[t] /\ work'[t].m = work[t].m /\ work'[t].outcome = work[t].outcome
    \/ pc'[t] = "idle"
    \/ \E m \in Messages : ClaimRun(t, m)
    \/ /\ pc[t] # "idle" /\ work'[t].m = work[t].m
       /\ pc'[t] \in {"fence", "post", "posted"}
    \/ /\ pc[t] # "idle" /\ work'[t].m = work[t].m /\ pc'[t] = "finish"
       /\ ~work'[t].outcome.named =>
             /\ pc[t] \in {"lookup", "fence"}
             /\ work'[t].outcome.certainty \in {"not_attempted", "outcome_unknown"}

LEMMA AnswerIsASenderStep ==
    ASSUME Known, NEW s \in Senders, NEW outcome \in Told, Answer(s, outcome),
           pc[s] # "idle",
           ~outcome.named => /\ pc[s] \in {"lookup", "fence"}
                             /\ outcome.certainty \in {"not_attempted", "outcome_unknown"}
    PROVE  \A t \in Senders : SenderStep(t)
  BY Answered DEF SenderStep, Known, Believed

LEMMA NextSenderStep ==
    ASSUME Known, [Next]_vars
    PROVE  \A t \in Senders : SenderStep(t)
<1>1. CASE UNCHANGED senders
  BY <1>1 DEF SenderStep, senders
<1>2. CASE \/ Approve \/ Cancel \/ \E to \in {"review", "in_progress"} : MoveTask(to)
           \/ \E m \in Messages : Terminalize(m) \/ Sweep(m) \/ Attest(m) \/ LookUp(m)
           \/ \E m \in Messages, status \in Statuses :
                 ProviderMoves(m, status) \/ ApplyStatus(m, status)
           \/ \E s \in Senders, m \in Messages : RefuseRun(s, m)
           \/ UNCHANGED vars
  BY <1>1, <1>2
  DEF Approve, Cancel, MoveTask, Terminalize, Sweep, Attest, LookUp, ProviderMoves,
      ApplyStatus, RefuseRun, vars
<1>3. ASSUME NEW s \in Senders, NEW m \in Messages, ClaimRun(s, m)
      PROVE  \A t \in Senders : SenderStep(t)
  <2>1. \A t \in Senders \ {s} : pc'[t] = pc[t] /\ work'[t] = work[t]
    BY <1>3 DEF ClaimRun, Known, Believed, Typed, TypeOK
  <2> QED
    BY <1>3, <2>1 DEF SenderStep
<1>4. ASSUME NEW s \in Senders, RecordOutcome(s) \/ Crash(s)
      PROVE  \A t \in Senders : SenderStep(t)
  BY <1>4 DEF RecordOutcome, Crash, Known, Believed, Typed, TypeOK, SenderStep
<1>5. ASSUME NEW s \in Senders, Reserve(s) \/ Submit(s)
      PROVE  \A t \in Senders : SenderStep(t)
  <2>1. CASE Submit(s)
    BY <2>1 DEF Submit, Known, Believed, Typed, TypeOK, WorkType, SenderStep
  <2>2. CASE Reserve(s)
    <3>1. msg[work[s].m] = NoMessage
      BY <2>2, WorkTyped
      DEF Reserve, Known, Believed, Typed, JobInv, JobIsTrue, DispatchInv, FreshIsUntouched
    <3> QED
      BY <2>2, <3>1 DEF Reserve, GoTo, Known, Believed, Typed, TypeOK, SenderStep
  <2> QED
    BY <1>5, <2>1, <2>2
<1>6. ASSUME NEW s \in Senders, Fence(s)
      PROVE  \A t \in Senders : SenderStep(t)
  <2>1. CASE GoTo(s, "post")
    BY <1>6, <2>1 DEF Fence, GoTo, Known, Believed, Typed, TypeOK, SenderStep
  <2>2. CASE ~GoTo(s, "post")
    <3>1. PICK outcome \in {Unknown, NotAttempted, Outcome("not_attempted", TRUE, FALSE)} :
             Answer(s, outcome)
      BY <1>6, <2>2 DEF Fence
    <3>2. outcome \in Told
      BY OutcomesTyped DEF Certainties
    <3>3. ~outcome.named => outcome.certainty = "not_attempted"
      BY DEF Unknown, NotAttempted, Outcome
    <3> QED
      BY <1>6, <3>1, <3>2, <3>3, AnswerIsASenderStep DEF Fence
  <2> QED
    BY <2>1, <2>2
<1>7. ASSUME NEW s \in Senders, Refuse(s) \/ Fail(s)
      PROVE  \A t \in Senders : SenderStep(t)
  <2>1. PICK outcome \in {NotAttempted, Outcome("outcome_unknown", FALSE, FALSE)} :
           Answer(s, outcome)
    BY <1>7 DEF Refuse, Fail
  <2>2. outcome \in Told /\ outcome.certainty \in {"not_attempted", "outcome_unknown"}
    <3>1. outcome \in Told
      BY OutcomesTyped DEF Certainties
    <3>2. outcome.certainty \in {"not_attempted", "outcome_unknown"}
      BY DEF NotAttempted, Outcome
    <3> QED
      BY <3>1, <3>2
  <2>3. pc[s] \in {"lookup", "fence"}
    BY <1>7 DEF Refuse, Fail, Known, JobInv, JobIsTrue
  <2> QED
    BY <2>1, <2>2, <2>3, AnswerIsASenderStep
<1>8. ASSUME NEW s \in Senders, LoseAnswer(s) \/ LoseDispatch(s)
      PROVE  \A t \in Senders : SenderStep(t)
  <2>1. Answer(s, Unknown) /\ pc[s] = "posted"
    BY <1>8 DEF LoseAnswer, LoseDispatch, StillDispatching
  <2> QED
    BY <2>1, OutcomesTyped, AnswerIsASenderStep DEF Unknown, Outcome
<1>9. ASSUME NEW s \in Senders, RecordAnswer(s)
      PROVE  \A t \in Senders : SenderStep(t)
  <2>1. PICK certainty \in Certainties : Answer(s, Outcome(certainty, TRUE, FALSE))
    BY <1>9, StatusTypes, WorkTyped
    DEF RecordAnswer, Certainties, Statuses, Known, Believed, Typed
  <2>2. pc[s] = "posted" /\ Outcome(certainty, TRUE, FALSE).named
    BY <1>9 DEF RecordAnswer, StillDispatching, Outcome
  <2> QED
    BY <2>1, <2>2, OutcomesTyped, AnswerIsASenderStep
<1>10. \A s \in Senders :
          ~(Post(s) \/ AwaitWinner(s) \/ ReplayExpired(s) \/ Replay(s))
  BY DEF Post, AwaitWinner, ReplayExpired, Replay, Known, JobInv, JobIsTrue
<1> QED
  BY <1>2, <1>3, <1>4, <1>5, <1>6, <1>7, <1>8, <1>9, <1>10 DEF Next, JobStep, Dispatch

\* What a step does to a run.
RunStep(m) ==
    \/ run'[m] = run[m]
    \/ Approve /\ m = made + 1
    \/ Terminalize(m)
    \/ \E s \in Senders : ClaimRun(s, m) \/ RefuseRun(s, m)
    \/ \E s \in Senders : RecordOutcome(s) /\ work[s].m = m
    \/ /\ run'[m] = Evidence /\ HasRun(m)
       /\ msg[m].status \notin {"none", "delivered"}
    \/ /\ HasRun(m) /\ msg[m].status # "none"
       /\ \E status \in said[m] : /\ run'[m] = LearnedRun(status)
                                  /\ msg'[m].status = MessageStatus(status)

LEMMA EvidenceIsARunStep ==
    ASSUME Known, NEW m \in Messages, KeepEvidence(m),
           msg[m].status \notin {"none", "delivered"}
    PROVE  \A n \in Messages : RunStep(n)
  BY EvidenceKept DEF RunStep, Known, Believed, Typed

LEMMA LearnIsARunStep ==
    ASSUME Known, NEW m \in Messages, NEW status \in Statuses, Learn(m, status),
           status \in said[m], msg[m].status # "none"
    PROVE  \A n \in Messages : RunStep(n)
  BY Learned DEF RunStep, Known, Believed, Typed

LEMMA NextRunStep ==
    ASSUME Known, [Next]_vars
    PROVE  \A m \in Messages : RunStep(m)
<1>1. CASE UNCHANGED run
  BY <1>1 DEF RunStep
<1>2. ASSUME Approve PROVE \A m \in Messages : RunStep(m)
  BY <1>2 DEF Approve, RunStep, Known, Believed, Typed, TypeOK
<1>3. ASSUME NEW m \in Messages,
             Terminalize(m) \/ \E s \in Senders : ClaimRun(s, m) \/ RefuseRun(s, m)
      PROVE  \A n \in Messages : RunStep(n)
  <2>1. \A n \in Messages \ {m} : run'[n] = run[n]
    BY <1>3 DEF Terminalize, ClaimRun, RefuseRun, Known, Believed, Typed, TypeOK
  <2>2. \A n \in Messages \ {m} : RunStep(n)
    BY <2>1 DEF RunStep
  <2>3. RunStep(m)
    <3>1. CASE Terminalize(m)
      BY <3>1 DEF RunStep
    <3>2. CASE \E s \in Senders : ClaimRun(s, m) \/ RefuseRun(s, m)
      BY <3>2 DEF RunStep
    <3> QED
      BY <1>3, <3>1, <3>2
  <2> QED
    BY <2>2, <2>3
<1>4. ASSUME NEW s \in Senders, RecordOutcome(s) PROVE \A m \in Messages : RunStep(m)
  <2>1. \A n \in Messages \ {work[s].m} : run'[n] = run[n]
    BY <1>4 DEF RecordOutcome, Known, Believed, Typed, TypeOK
  <2> QED
    BY <1>4, <2>1 DEF RunStep
<1>5. ASSUME NEW s \in Senders, LoseAnswer(s) \/ ReplayExpired(s)
      PROVE  \A m \in Messages : RunStep(m)
  BY <1>1, <1>5, WorkTyped, EvidenceIsARunStep
  DEF LoseAnswer, ReplayExpired, StillDispatching, Known, Believed, Typed
<1>6. ASSUME NEW m \in Messages, Sweep(m) PROVE \A n \in Messages : RunStep(n)
  BY <1>1, <1>6, EvidenceIsARunStep DEF Sweep
<1>7. ASSUME NEW m \in Messages, Unresolved(m)
      PROVE  msg[m].status \notin {"none", "delivered"}
  BY <1>7 DEF Unresolved, Known, Believed, MsgInv, MessageIsTrue, DispatchInv,
              FreshIsUntouched, NoMessage
<1>8. ASSUME NEW m \in Messages, Attest(m) PROVE \A n \in Messages : RunStep(n)
  BY <1>7, <1>8, EvidenceIsARunStep DEF Attest
<1>9. ASSUME NEW m \in Messages, LookUp(m) PROVE \A n \in Messages : RunStep(n)
  <2>1. Latest(m) \in said[m] /\ Latest(m) \in Statuses
    BY <1>9, LatestIsSaid DEF LookUp, Known, Believed, Typed, TypeOK
  <2> QED
    BY <1>7, <1>9, <2>1, LearnIsARunStep DEF LookUp
<1>10. ASSUME NEW m \in Messages, NEW status \in Statuses, ApplyStatus(m, status)
       PROVE  \A n \in Messages : RunStep(n)
  <2>1. msg[m].status # "none"
    BY <1>10 DEF ApplyStatus, Known, Believed, DispatchInv, FreshIsUntouched, NoMessage
  <2> QED
    BY <1>10, <2>1, LearnIsARunStep DEF ApplyStatus
<1>11. ASSUME ~UNCHANGED run
       PROVE  /\ ~UNCHANGED vars /\ ~Cancel
              /\ ~\E to \in {"review", "in_progress"} : MoveTask(to)
              /\ \A s \in Senders :
                    /\ ~(Post(s) \/ Crash(s) \/ Refuse(s) \/ Fail(s) \/ Reserve(s))
                    /\ ~(Fence(s) \/ Submit(s) \/ RecordAnswer(s) \/ LoseDispatch(s))
                    /\ ~(AwaitWinner(s) \/ Replay(s))
              /\ \A m \in Messages, status \in Statuses : ~ProviderMoves(m, status)
  BY <1>11
  DEF vars, Cancel, MoveTask, Post, Crash, Refuse, Fail, Reserve, Fence, Submit,
      RecordAnswer, LoseDispatch, AwaitWinner, Replay, ProviderMoves
<1> QED
  BY <1>1, <1>2, <1>3, <1>4, <1>5, <1>6, <1>8, <1>9, <1>10, <1>11
  DEF Next, JobStep, Dispatch

\* How each of these steps writes its run.
LEMMA ApproveWrites ==
    ASSUME Known, Approve
    PROVE  LET m == made + 1
           IN /\ m \in Messages /\ run[m].status = "absent" /\ run'[m].status = "queued"
              /\ run'[m].certainty = run[m].certainty /\ run'[m].required = run[m].required
<1>1. made + 1 \in Messages /\ made + 1 > made
  BY SmsAssumption DEF Approve, Messages, Known, Believed, Typed, TypeOK
<1> QED
  BY <1>1 DEF Approve, Known, Believed, Typed, TypeOK, RunType, RunInv, RunIsFresh

LEMMA ClaimWrites ==
    ASSUME Known, NEW s \in Senders, NEW m \in Messages, ClaimRun(s, m)
    PROVE  /\ run[m].status = "queued" /\ run'[m].status = "sending"
           /\ run'[m].certainty = run[m].certainty /\ run'[m].required = run[m].required
           /\ pc'[s] = "lookup" /\ work'[s].m = m
           /\ \A t \in Senders \ {s} : pc'[t] = pc[t] /\ work'[t] = work[t]
  BY DEF ClaimRun, Known, Believed, Typed, TypeOK, RunType, WorkType, NoWork

LEMMA RefuseWrites ==
    ASSUME Known, NEW s \in Senders, NEW m \in Messages, RefuseRun(s, m)
    PROVE  /\ run[m].status = "queued" /\ run'[m].status = "failed"
           /\ run'[m].certainty = run[m].certainty
  BY DEF RefuseRun, Known, Believed, Typed, TypeOK, RunType

LEMMA TerminalizeWrites ==
    ASSUME Known, NEW m \in Messages, Terminalize(m)
    PROVE  /\ run[m].status = "sending" /\ run'[m].status = "failed"
           /\ run'[m].certainty = "outcome_unknown"
  BY DEF Terminalize, Known, Believed, Typed, TypeOK, RunType

LEMMA RecordWrites ==
    ASSUME Known, NEW s \in Senders, RecordOutcome(s), ~TruthAlreadyWon(s),
           NEW m \in Messages, work[s].m = m
    PROVE  /\ run'[m].status \in {"submitted", "failed"}
           /\ run'[m].certainty = work[s].outcome.certainty
<1>1. run \in [Messages -> RunType]
  BY DEF Known, Believed, Typed, TypeOK
<1> QED
  BY <1>1 DEF RecordOutcome

\* A run that has been claimed stays claimed.
LEMMA ClaimedStays ==
    ASSUME Known, [Next]_vars, NEW m \in Messages,
           run[m].status \notin {"absent", "queued"}
    PROVE  run'[m].status \notin {"absent", "queued"}
<1>1. CASE run'[m] = run[m]
  BY <1>1
<1>2. CASE (Approve /\ m = made + 1) \/ Terminalize(m)
           \/ \E s \in Senders : ClaimRun(s, m) \/ RefuseRun(s, m)
  BY <1>2, ApproveWrites, TerminalizeWrites, ClaimWrites, RefuseWrites
<1>3. ASSUME NEW s \in Senders, RecordOutcome(s), work[s].m = m
      PROVE  run'[m].status \notin {"absent", "queued"}
  BY <1>1, <1>3, RecordWrites DEF RecordOutcome
<1>4. CASE run'[m] = Evidence
  BY <1>4 DEF Evidence
<1>5. CASE \E status \in said[m] : run'[m] = LearnedRun(status)
  BY <1>5, StatusTypes DEF LearnedRun, Known, Believed, Typed, TypeOK
<1> QED
  BY <1>1, <1>2, <1>3, <1>4, <1>5, NextRunStep DEF RunStep

LEMMA NextJobInv == ASSUME Known, [Next]_vars PROVE JobInv'
<1>1. \A t \in Senders : SenderStep(t) /\ work[t].m \in Messages
  BY NextSenderStep, WorkTyped DEF Known, Believed, Typed
<1>2. MsgFacts /\ DispatchEnds /\ Believed'
  BY NextMsgFacts, NextDispatchEnds, NextTyped, NextKeepsDispatch, NextKeepsMsgInv
  DEF Known, Believed
<1>3. OneWorker'
  <2>1. ASSUME NEW s \in Senders, NEW m \in Messages, ClaimRun(s, m)
        PROVE  OneWorker'
    <3>1. NoWorker(m)
      BY <2>1, ClaimWrites DEF NoWorker, Working, Known, JobInv, JobIsTrue
    <3> QED
      BY <2>1, <3>1, ClaimWrites
      DEF OneWorker, NoWorker, Working, Known, JobInv
  <2>2. CASE \A s \in Senders, m \in Messages : ~ClaimRun(s, m)
    <3>1. \A t \in Senders, m \in Messages : Working(t, m)' => Working(t, m)
      BY <1>1, <2>2 DEF SenderStep, Working
    <3> QED
      BY <3>1 DEF OneWorker, Known, JobInv
  <2> QED
    BY <2>1, <2>2
<1>4. ASSUME NEW t \in Senders PROVE JobIsTrue(t)'
  <2>1. JobIsTrue(t)
    BY DEF Known, JobInv
  <2>2. CASE pc'[t] = "idle"
    BY <2>2 DEF JobIsTrue
  <2>3. ASSUME NEW m \in Messages, ClaimRun(t, m) PROVE JobIsTrue(t)'
    <3>1. msg[m].status = "none" /\ msg' = msg
      BY <2>3, ClaimWrites DEF Known, RunInv, RunIsFresh, ClaimRun
    <3> QED
      BY <2>3, <3>1, ClaimWrites DEF JobIsTrue
  <2>4. CASE /\ pc[t] # "idle" /\ work'[t].m = work[t].m
             /\ pc'[t] \in {"fence", "post", "posted"}
    BY <1>1, <2>1, <2>4, ClaimedStays DEF JobIsTrue
  <2>5. CASE /\ pc[t] # "idle" /\ work'[t].m = work[t].m /\ pc'[t] = "finish"
             /\ ~work'[t].outcome.named =>
                   /\ pc[t] \in {"lookup", "fence"}
                   /\ work'[t].outcome.certainty \in {"not_attempted", "outcome_unknown"}
    <3>1. run'[work'[t].m].status \notin {"absent", "queued"}
      BY <1>1, <2>1, <2>5, ClaimedStays DEF JobIsTrue
    <3>2. ~work'[t].outcome.named => posts[work[t].m] = 0
      BY <1>1, <2>1, <2>5
      DEF JobIsTrue, Known, Believed, DispatchInv, PostIsFirst, FreshIsUntouched
    <3>3. ~work'[t].outcome.named => posts'[work[t].m] = posts[work[t].m]
      <4>1. SUFFICES ASSUME ~work'[t].outcome.named, posts'[work[t].m] # posts[work[t].m]
                     PROVE  FALSE
        OBVIOUS
      <4>2. PICK s \in Senders : Submit(s)
        BY <4>1, OtherStepsAreQuiet DEF Quiet, Known, Believed, Reserve, provider
      <4>3. pc[t] # "post" /\ pc[s] = "post" /\ pc'[t] = pc[t]
        BY <2>5, <4>1, <4>2 DEF Submit, Known, Believed, Typed, TypeOK
      <4> QED
        BY <2>5, <4>1, <4>3
    <3> QED
      BY <2>5, <3>1, <3>2, <3>3 DEF JobIsTrue
  <2>6. CASE /\ pc'[t] = pc[t] /\ work'[t].m = work[t].m
             /\ work'[t].outcome = work[t].outcome
    <3>1. pc[t] # "idle" => run'[work[t].m].status \notin {"absent", "queued"}
      BY <1>1, <2>1, ClaimedStays DEF JobIsTrue
    <3>2. ASSUME pc[t] = "lookup" PROVE msg'[work[t].m].status = "none"
      <4>1. SUFFICES ASSUME msg'[work[t].m].status # "none" PROVE FALSE
        OBVIOUS
      <4>2. PICK s \in Senders : Reserve(s) /\ work[s].m = work[t].m
        BY <1>1, <1>2, <2>1, <3>2, <4>1 DEF MsgFacts, RowStep, JobIsTrue
      <4>3. s = t
        BY <1>1, <3>2, <4>2 DEF Reserve, Known, JobInv, OneWorker, Working
      <4>4. pc'[t] # "lookup"
        BY <4>2, <4>3 DEF Reserve, GoTo, Known, Believed, Typed, TypeOK
      <4> QED
        BY <2>6, <3>2, <4>4
    <3>3. ASSUME pc[t] = "finish" PROVE posts'[work[t].m] = posts[work[t].m]
      <4>1. NoDispatcher(work[t].m)
        BY <1>1, <3>3
        DEF NoDispatcher, Dispatching, Known, JobInv, OneWorker, Working
      <4> QED
        BY <1>1, <1>2, <4>1 DEF DispatchEnds
    <3> QED
      BY <2>1, <2>6, <3>1, <3>2, <3>3 DEF JobIsTrue
  <2> QED
    BY <1>1, <2>2, <2>3, <2>4, <2>5, <2>6 DEF SenderStep
<1> QED
  BY <1>3, <1>4 DEF JobInv

\* Only an approval makes a draft, only a cancellation cancels, and a cancelled
\* task's runs are not claimed.
LEMMA TaskStep ==
    ASSUME [Next]_vars
    PROVE  /\ made' = made \/ Approve
           /\ task' = "cancelled" =>
                 \/ Cancel
                 \/ /\ task = "cancelled" /\ made' = made
                    /\ \A s \in Senders, m \in Messages : ~ClaimRun(s, m)
<1>1. CASE UNCHANGED taskVars
  BY <1>1 DEF taskVars, ClaimRun
<1>2. CASE Approve \/ Cancel \/ \E to \in {"review", "in_progress"} : MoveTask(to)
  BY <1>2 DEF Approve, MoveTask, Cancel
<1> QED
  BY <1>1, <1>2
  DEF Next, JobStep, Dispatch, RecordOutcome, ClaimRun, RefuseRun, Refuse, Reserve, Fence,
      Submit, RecordAnswer, LoseAnswer, LoseDispatch, AwaitWinner, ReplayExpired, Replay,
      Post, Fail, Crash, Terminalize, Sweep, Attest, LookUp, ProviderMoves, ApplyStatus, vars

\* A run that is not claimed has no message and nobody works on it.
LEMMA UnclaimedIsIdle ==
    ASSUME Known, NEW m \in Messages, run[m].status \in {"absent", "queued"}
    PROVE  msg[m].status = "none" /\ posts[m] = 0 /\ NoWorker(m)
  BY DEF Known, RunInv, RunIsFresh, Believed, DispatchInv, FreshIsUntouched, JobInv,
         JobIsTrue, NoWorker, Working

\* ... and no step but the claim changes that.
LEMMA UnclaimedStaysUnsaid ==
    ASSUME Known, [Next]_vars, NEW m \in Messages, run[m].status \in {"absent", "queued"}
    PROVE  msg'[m].status = "none"
<1>1. RowStep(m)
  BY NextMsgFacts DEF MsgFacts, Known
<1>2. \A s \in Senders : ~(Reserve(s) /\ work[s].m = m)
  BY UnclaimedIsIdle DEF NoWorker, Working, Reserve
<1> QED
  BY <1>1, <1>2, UnclaimedIsIdle DEF RowStep

\* Who is not working on m does not begin to, but by the claim of its run.
LEMMA IdleStays ==
    ASSUME Known, [Next]_vars, NEW m \in Messages, NoWorker(m),
           \A s \in Senders : ~ClaimRun(s, m)
    PROVE  NoWorker(m)' /\ posts'[m] = posts[m]
<1>1. NoDispatcher(m)
  BY DEF NoWorker, Working, NoDispatcher, Dispatching
<1>2. posts'[m] = posts[m]
  BY <1>1, NextDispatchEnds DEF DispatchEnds, Known
<1>3. ASSUME NEW t \in Senders PROVE ~Working(t, m)'
  <2>1. SenderStep(t) /\ ~Working(t, m)
    BY NextSenderStep DEF NoWorker
  <2>2. \A n \in Messages : ClaimRun(t, n) => work'[t].m = n
    BY ClaimWrites
  <2> QED
    BY <2>1, <2>2 DEF SenderStep, Working
<1> QED
  BY <1>2, <1>3 DEF NoWorker

\* A step that leaves a run unclaimed leaves it as it was, or makes it.
LEMMA NextRunIsFresh ==
    ASSUME Known, [Next]_vars, NEW m \in Messages
    PROVE  RunIsFresh(m)'
<1>1. RunIsFresh(m) /\ made \in Nat /\ m \in Nat
  BY SmsAssumption DEF Known, RunInv, Believed, Typed, TypeOK, Messages
<1>2. CASE Approve /\ m = made + 1
  <2>1. msg' = msg /\ made' = made + 1
    BY <1>2 DEF Approve
  <2> QED
    BY <1>1, <1>2, <2>1, ApproveWrites DEF RunIsFresh
<1>3. CASE ~(Approve /\ m = made + 1)
  <2>1. m > made' <=> m > made
    BY <1>1, <1>3, TaskStep DEF Approve
  <2>2. CASE run'[m] = run[m]
    BY <1>1, <2>1, <2>2, UnclaimedStaysUnsaid DEF RunIsFresh
  <2>3. ASSUME NEW s \in Senders, ClaimRun(s, m) PROVE RunIsFresh(m)'
    BY <1>1, <2>1, <2>3, ClaimWrites DEF RunIsFresh
  <2>4. ASSUME run'[m].status \in {"submitted", "sent", "failed"},
               run[m].status # "absent"
        PROVE  RunIsFresh(m)'
    BY <1>1, <2>1, <2>4 DEF RunIsFresh
  <2>5. ASSUME Terminalize(m) \/ \E s \in Senders : RefuseRun(s, m)
        PROVE  RunIsFresh(m)'
    BY <2>4, <2>5, TerminalizeWrites, RefuseWrites
  <2>6. ASSUME NEW s \in Senders, RecordOutcome(s), work[s].m = m
        PROVE  RunIsFresh(m)'
    <3>1. run[m].status # "absent"
      BY <2>6 DEF RecordOutcome, Known, JobInv, JobIsTrue
    <3> QED
      BY <2>2, <2>4, <2>6, <3>1, RecordWrites DEF RecordOutcome
  <2>7. CASE run'[m] = Evidence /\ HasRun(m)
    BY <2>4, <2>7 DEF Evidence, HasRun
  <2>8. CASE HasRun(m) /\ \E status \in said[m] : run'[m] = LearnedRun(status)
    BY <2>4, <2>8, StatusTypes DEF LearnedRun, HasRun, Known, Believed, Typed, TypeOK
  <2> QED
    BY <1>3, <2>2, <2>3, <2>5, <2>6, <2>7, <2>8, NextRunStep DEF RunStep
<1> QED
  BY <1>2, <1>3

\* Whoever records the outcome of m was alone with it.
LEMMA RecorderLeaves ==
    ASSUME Known, [Next]_vars, NEW s \in Senders, NEW m \in Messages,
           RecordOutcome(s), work[s].m = m
    PROVE  NoDispatcher(m) /\ NoWorker(m)' /\ UNCHANGED <<posts, msg, said>>
<1>1. \A t \in Senders \ {s} : ~Working(t, m) /\ pc'[t] = pc[t] /\ work'[t] = work[t]
  BY DEF RecordOutcome, Known, JobInv, OneWorker, Working, Believed, Typed, TypeOK
<1>2. pc[s] = "finish" /\ pc'[s] = "idle" /\ UNCHANGED <<posts, msg, said>>
  BY DEF RecordOutcome, Known, Believed, Typed, TypeOK, provider
<1> QED
  BY <1>1, <1>2 DEF NoWorker, NoDispatcher, Working, Dispatching

\* What the job's outcome claims is true when it is recorded.
LEMMA RecordedIsTrue ==
    ASSUME Known, [Next]_vars, NEW s \in Senders, NEW m \in Messages,
           RecordOutcome(s), work[s].m = m, ~TruthAlreadyWon(s)
    PROVE  RunIsTrue(m)'
<1> DEFINE certainty == work[s].outcome.certainty
<1>1. run'[m].status \in {"submitted", "failed"} /\ run'[m].certainty = certainty
  BY RecordWrites
<1>2. NoDispatcher(m) /\ NoWorker(m)' /\ UNCHANGED <<posts, msg, said>>
  BY RecorderLeaves
<1>3. MessageIsTrue(m) /\ OutcomeIsTrue(s) /\ JobIsTrue(s) /\ pc[s] = "finish"
  BY DEF Known, Believed, MsgInv, JobInv, RecordOutcome
<1>4. CASE work[s].outcome.named
  <2>1. Settles(m, certainty)
    BY <1>3, <1>4 DEF OutcomeIsTrue
  <2>2. certainty = "not_attempted" => posts[m] = 0
    BY <1>3, <2>1 DEF Settles, MessageIsTrue
  <2> QED
    BY <1>1, <1>2, <2>1, <2>2 DEF RunIsTrue, Settles
<1>5. CASE ~work[s].outcome.named
  BY <1>1, <1>2, <1>3, <1>5 DEF JobIsTrue, RunIsTrue, Settles
<1> QED
  BY <1>4, <1>5

LEMMA LearnedIsTrue ==
    ASSUME Known, [Next]_vars, NEW m \in Messages, NEW status \in said[m],
           run'[m] = LearnedRun(status), msg'[m].status = MessageStatus(status)
    PROVE  RunIsTrue(m)'
<1>1. /\ status \in Statuses /\ said[m] \subseteq said'[m]
      /\ status = "read" => "delivered" \in said[m]
  BY NextMsgFacts
  DEF Known, Believed, Typed, TypeOK, MsgFacts, Lasting, MsgInv, MessageIsTrue
<1>2. Settles(m, CertaintyOf(status))' /\ CertaintyOf(status) # "not_attempted"
  BY <1>1 DEF Settles, CertaintyOf, Statuses
<1>3. /\ run'[m].certainty = CertaintyOf(status) /\ run'[m].status = RunStatus(status)
      /\ run'[m].bound = TRUE
  BY DEF LearnedRun
<1>4. RunStatus(status) = "sent" => MessageStatus(status) = "delivered"
  BY <1>1 DEF RunStatus, MessageStatus, Statuses
<1> QED
  BY <1>2, <1>3, <1>4 DEF RunIsTrue

LEMMA NextRunIsTrue ==
    ASSUME Known, [Next]_vars, NEW m \in Messages
    PROVE  RunIsTrue(m)'
<1>1. RunIsTrue(m) /\ MsgFacts
  BY NextMsgFacts DEF Known, RunInv
<1>2. CASE run'[m] = run[m]
  <2>1. run[m].status \in {"submitted", "sent", "failed"} =>
           \A s \in Senders : ~ClaimRun(s, m)
    BY <1>2, ClaimWrites
  <2>2. NoWorker(m) /\ run[m].status \in {"submitted", "sent", "failed"} =>
           NoWorker(m)' /\ posts'[m] = posts[m]
    BY <2>1, IdleStays
  <2>3. Settles(m, run[m].certainty) => Settles(m, run[m].certainty)'
    <3>1. SUFFICES ASSUME NEW certainty, Settles(m, certainty)
                   PROVE  Settles(m, certainty)'
      BY <1>2 DEF Settles
    <3> QED
      BY <1>1, <3>1, SettledLasts DEF MsgFacts
  <2>4. msg[m].status = "delivered" => msg'[m].status = "delivered"
    BY <1>1 DEF MsgFacts, SettledMessage
  <2> QED
    BY <1>1, <1>2, <2>2, <2>3, <2>4 DEF RunIsTrue, Settles
<1>3. ASSUME run'[m].status \in {"queued", "sending"} PROVE RunIsTrue(m)'
  BY <1>3 DEF RunIsTrue
<1>4. CASE Approve /\ m = made + 1
  BY <1>3, <1>4, ApproveWrites
<1>5. ASSUME NEW s \in Senders, ClaimRun(s, m) PROVE RunIsTrue(m)'
  BY <1>3, <1>5, ClaimWrites
<1>6. ASSUME NEW s \in Senders, RefuseRun(s, m) PROVE RunIsTrue(m)'
  <2>1. run[m].status = "queued" /\ run'[m].status = "failed" /\ UNCHANGED <<posts, senders>>
        /\ run'[m].certainty = "not_attempted"
    BY <1>6, RefuseWrites DEF RefuseRun, Known, RunInv, RunIsFresh, provider
  <2> QED
    BY <2>1, UnclaimedIsIdle DEF RunIsTrue, NoWorker, Working, senders
<1>7. CASE Terminalize(m)
  BY <1>7, TerminalizeWrites DEF RunIsTrue, Settles
<1>8. ASSUME NEW s \in Senders, RecordOutcome(s), work[s].m = m PROVE RunIsTrue(m)'
  BY <1>2, <1>8, RecordedIsTrue DEF RecordOutcome
<1>9. CASE run'[m] = Evidence
  BY <1>9 DEF Evidence, RunIsTrue, Settles
<1> QED
  BY <1>2, <1>4, <1>5, <1>6, <1>7, <1>8, <1>9, LearnedIsTrue, NextRunStep DEF RunStep

LEMMA NextUnknownIsEvident ==
    ASSUME Known, [Next]_vars, NEW m \in Messages
    PROVE  UnknownIsEvident(m)'
<1> SUFFICES ASSUME msg'[m].status = "provider_unknown", HasRun(m)'
             PROVE  run'[m] = Evidence \/ (posts'[m] = 0 /\ NoDispatcher(m)')
  BY DEF UnknownIsEvident, Evidence
<1>1. run[m].status \notin {"absent", "queued"} /\ HasRun(m)
  BY UnclaimedStaysUnsaid DEF HasRun
<1>2. CASE msg[m].status # "provider_unknown"
  BY <1>1, <1>2, NextMsgFacts DEF MsgFacts, RowStep, Known
<1>3. CASE msg[m].status = "provider_unknown"
  <2>1. posts[m] = 0 /\ NoDispatcher(m) => posts'[m] = 0 /\ NoDispatcher(m)'
    BY <1>3, NextDispatchEnds DEF DispatchEnds, Known
  <2>2. CASE run[m] = Evidence
    <3>1. /\ run[m].status = "failed" /\ run[m].bound
      BY <2>2 DEF Evidence
    <3>2. ASSUME NEW s \in Senders, RecordOutcome(s), work[s].m = m
          PROVE  run'[m] = run[m] \/ (posts[m] = 0 /\ NoDispatcher(m))
      <4>1. CASE work[s].outcome.named
        BY <3>1, <3>2, <4>1 DEF RecordOutcome, TruthAlreadyWon
      <4>2. CASE ~work[s].outcome.named
        BY <3>2, <4>2, RecorderLeaves DEF RecordOutcome, Known, JobInv, JobIsTrue
      <4> QED
        BY <4>1, <4>2
    <3>3. ~(Approve /\ m = made + 1) /\ ~Terminalize(m)
          /\ \A s \in Senders : ~ClaimRun(s, m) /\ ~RefuseRun(s, m)
      BY <3>1, ApproveWrites, TerminalizeWrites, ClaimWrites, RefuseWrites
    <3>4. \A status \in said[m] : msg'[m].status # MessageStatus(status)
      BY StatusTypes DEF Known, Believed, Typed, TypeOK
    <3> QED
      BY <2>1, <2>2, <3>2, <3>3, <3>4, NextRunStep DEF RunStep
  <2>3. CASE run[m] # Evidence
    BY <1>1, <1>3, <2>1, <2>3 DEF Known, RunInv, UnknownIsEvident
  <2> QED
    BY <2>2, <2>3
<1> QED
  BY <1>2, <1>3

LEMMA NextCancelledIsIdle ==
    ASSUME Known, [Next]_vars
    PROVE  CancelledIsIdle'
<1> SUFFICES ASSUME task' = "cancelled", made' > 0
             PROVE  posts'[made'] = 0 /\ NoWorker(made)'
  BY DEF CancelledIsIdle
<1>1. CASE /\ task = "cancelled" /\ made' = made
           /\ \A s \in Senders, m \in Messages : ~ClaimRun(s, m)
  <2>1. made \in Messages
    BY <1>1, SmsAssumption DEF Known, Believed, Typed, TypeOK, Messages
  <2>2. posts[made] = 0 /\ NoWorker(made)
    BY <1>1 DEF Known, RunInv, CancelledIsIdle
  <2>3. ASSUME NEW m \in Messages, m = made PROVE NoWorker(m)' /\ posts'[m] = 0
    BY <1>1, <2>2, <2>3, IdleStays
  <2> QED
    BY <1>1, <2>1, <2>3 DEF NoWorker, Working
<1>2. CASE Cancel
  <2>1. made' = made /\ UNCHANGED <<posts, pc, work>>
    BY <1>2 DEF Cancel, provider, senders
  <2>2. made \in Messages /\ ~(made > made) /\ made # 0
    BY <2>1, SmsAssumption DEF Known, Believed, Typed, TypeOK, Messages
  <2>3. /\ run[made].status \notin {"sending", "submitted", "sent"}
        /\ run[made].certainty = "not_attempted"
    BY <1>2, <2>2 DEF Cancel, DispatchCrossed, LatestRun
  <2>4. posts[made] = 0 /\ NoWorker(made)
    <3>1. CASE run[made].status \in {"absent", "queued"}
      BY <2>2, <3>1, UnclaimedIsIdle
    <3>2. CASE run[made].status = "failed"
      BY <2>2, <2>3, <3>2 DEF Known, RunInv, RunIsTrue
    <3> QED
      BY <2>2, <2>3, <3>1, <3>2 DEF Known, Believed, Typed, TypeOK, RunType
  <2> QED
    BY <2>1, <2>4 DEF NoWorker, Working
<1> QED
  BY <1>1, <1>2, TaskStep

AllInv == Believed /\ RequestHasNoRun /\ JobInv /\ RunInv

LEMMA NextAllInv == AllInv /\ [Next]_vars => AllInv'
<1> SUFFICES ASSUME AllInv, [Next]_vars PROVE AllInv'
  OBVIOUS
<1>1. Believed' /\ RequestHasNoRun' /\ origin' = origin
  BY NextTyped, NextKeepsDispatch, NextKeepsMsgInv, NextRequestHasNoRun
  DEF AllInv, Believed
<1>2. CASE origin = "task"
  <2>1. Known
    BY <1>2 DEF AllInv, Known
  <2> QED
    BY <1>1, <2>1, NextJobInv, NextRunIsFresh, NextRunIsTrue, NextUnknownIsEvident,
       NextCancelledIsIdle
    DEF AllInv, RunInv
<1>3. CASE origin # "task"
  BY <1>1, <1>3 DEF AllInv, JobInv, RunInv
<1> QED
  BY <1>2, <1>3

LEMMA InitAllInv == Init => AllInv
<1> SUFFICES ASSUME Init PROVE AllInv
  OBVIOUS
<1>1. DispatchInv
  BY InitDispatchInv
<1>2. MsgInv
  BY DEF Init, MsgInv, MessageIsTrue, AnswerIsTrue, OutcomeIsTrue, Unresolved, NoMessage
<1>3. RequestHasNoRun /\ JobInv
  BY DEF Init, RequestHasNoRun, JobInv, OneWorker, JobIsTrue, Working
<1>4. RunInv
  BY SmsAssumption
  DEF Init, RunInv, CancelledIsIdle, RunIsFresh, RunIsTrue, UnknownIsEvident, NoRun,
      HasRun, Messages, NoMessage
<1> QED
  BY <1>1, <1>2, <1>3, <1>4, InitTyped DEF AllInv, Believed

LEMMA AlwaysAllInv == Spec => []AllInv
  BY InitAllInv, NextAllInv, PTL DEF Spec

-------------------------------------------------------------------------------
(***************************************************************************)
(* The properties.                                                         *)
(***************************************************************************)
\* Neither a run that has ended nor a caller that was told of its message ever
\* claims more than the provider has said, whatever was lost and in whatever
\* order callbacks, sweeps and recorders came.
THEOREM OnlyTrueClaims == Spec => []ClaimsAreTrue
<1>1. ASSUME Believed, NEW m \in Messages, NEW certainty, Settles(m, certainty)
      PROVE  ClaimHolds(m, certainty)
  BY <1>1 DEF Believed, MsgInv, MessageIsTrue, Settles, ClaimHolds
<1>2. ASSUME AllInv PROVE ClaimsAreTrue
  <2>1. ASSUME NEW m \in Messages, run[m].status \in {"submitted", "sent", "failed"}
        PROVE  ClaimHolds(m, run[m].certainty)
    <3>1. origin = "task"
      BY <1>2, <2>1
      DEF AllInv, RequestHasNoRun, NoRun, Believed, Typed, TypeOK
    <3>2. RunIsTrue(m)
      BY <1>2, <3>1 DEF AllInv, RunInv
    <3>3. CASE run[m].certainty = "not_attempted"
      BY <2>1, <3>2, <3>3 DEF RunIsTrue, ClaimHolds
    <3>4. CASE run[m].certainty # "not_attempted"
      BY <1>1, <1>2, <2>1, <3>2, <3>4 DEF RunIsTrue, AllInv
    <3> QED
      BY <3>3, <3>4
  <2>2. ASSUME NEW s \in Senders, pc[s] \in {"finish", "done"}, work[s].outcome.named
        PROVE  ClaimHolds(work[s].m, work[s].outcome.certainty)
    BY <1>1, <1>2, <2>2, WorkTyped
    DEF AllInv, Believed, Typed, MsgInv, OutcomeIsTrue
  <2> QED
    BY <2>1, <2>2 DEF ClaimsAreTrue
<1> QED
  BY <1>2, AlwaysAllInv, PTL

\* A message that went out and whose outcome is unknown blocks its task: its run
\* asks for an operator, whoever of the sweep, the worker and the job's takeover
\* wrote last.
THEOREM UnknownIsBlocking == Spec => []UnknownBlocksTheTask
<1>1. ASSUME AllInv PROVE UnknownBlocksTheTask
  <2> SUFFICES ASSUME NEW m \in Messages, msg[m].status = "provider_unknown",
                      posts[m] > 0, HasRun(m)
               PROVE  run[m].required
    BY DEF UnknownBlocksTheTask
  <2>1. origin = "task"
    BY <1>1 DEF AllInv, RequestHasNoRun, NoRun, HasRun, Believed, Typed, TypeOK
  <2> QED
    BY <1>1, <2>1 DEF AllInv, RunInv, UnknownIsEvident, Evidence
<1> QED
  BY <1>1, AlwaysAllInv, PTL

\* A task is cancelled only if the text of its latest approval never left, and
\* then it never does.
THEOREM CancelledNeverSent == Spec => []CancelledMeansUnsent
<1>1. AllInv => CancelledMeansUnsent
  BY DEF AllInv, RunInv, CancelledIsIdle, CancelledMeansUnsent, RequestHasNoRun, Believed,
         Typed, TypeOK
<1> QED
  BY <1>1, AlwaysAllInv, PTL

\* Settled delivery stays settled, in the message and in its run, whatever
\* arrives late.
THEOREM SettledForGood == Spec => SettledStays
<1>1. ASSUME AllInv, [Next]_vars
      PROVE  \A m \in Messages :
                /\ msg[m].status \in {"delivered", "failed"} => msg'[m].status = msg[m].status
                /\ run[m].status = "sent" => run'[m].status = "sent"
  <2>1. MsgFacts
    BY <1>1, NextMsgFacts DEF AllInv
  <2>2. ASSUME NEW m \in Messages, run[m].status = "sent" PROVE run'[m].status = "sent"
    <3>1. Known
      BY <1>1, <2>2 DEF AllInv, Known, RequestHasNoRun, NoRun, Believed, Typed, TypeOK
    <3>2. /\ run[m].bound /\ msg[m].status = "delivered" /\ msg'[m].status = "delivered"
          /\ posts[m] # 0
      BY <2>1, <2>2, <3>1
      DEF Known, RunInv, RunIsTrue, MsgFacts, SettledMessage, Believed, MsgInv, MessageIsTrue,
          DispatchInv, SilentBeforePost, Statuses
    <3>3. ~(Approve /\ m = made + 1) /\ ~Terminalize(m)
          /\ \A s \in Senders : ~ClaimRun(s, m) /\ ~RefuseRun(s, m)
      BY <2>2, <3>1, ApproveWrites, TerminalizeWrites, ClaimWrites, RefuseWrites
    <3>4. ASSUME NEW s \in Senders, RecordOutcome(s), work[s].m = m
          PROVE  run'[m] = run[m]
      BY <2>2, <3>1, <3>2, <3>4
      DEF RecordOutcome, TruthAlreadyWon, Known, JobInv, JobIsTrue
    <3>5. ASSUME NEW status \in said[m], run'[m] = LearnedRun(status),
                 msg'[m].status = MessageStatus(status)
          PROVE  run'[m].status = "sent"
      BY <3>1, <3>2, <3>5
      DEF LearnedRun, RunStatus, MessageStatus, Statuses, Known, Believed, Typed, TypeOK
    <3> QED
      BY <1>1, <2>2, <3>1, <3>2, <3>3, <3>4, <3>5, NextRunStep DEF RunStep
  <2> QED
    BY <2>1, <2>2 DEF MsgFacts, SettledMessage
<1> QED
  BY <1>1, AlwaysAllInv, PTL DEF Spec, SettledStays

================================================================================
