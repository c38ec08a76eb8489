-------------------------- MODULE TaskDelivery_proofs --------------------------
(***************************************************************************)
(* Theorems about TaskDelivery, for any number of workers, texts, attempts *)
(* and approvals.                                                          *)
(***************************************************************************)
EXTENDS TaskDelivery, TLAPS

(***************************************************************************)
(* The inductive invariant.  A worker delivers run r from the claim of r   *)
(* to its outcome.                                                         *)
(***************************************************************************)
Delivers(w, r) == /\ pc[w] \in {"revalidate", "settings", "send", "taken", "finish"}
                  /\ work[w].run = r

\* Runs are made in order, each after the failed run its approval retried.
RunsInOrder ==
    /\ \A r \in Runs :
          IF r <= made THEN runs[r].status # "absent" /\ runs[r].after < r
          ELSE runs[r] = NoRun /\ jobs[r].status = "absent" /\ taken[r] = 0
    /\ \A w \in Workers : pc[w] # "idle" => work[w].run \in Runs /\ work[w].run <= made

\* Nobody delivers a run that is queued, sent, or said to have sent nothing;
\* and a failed run is never certain to have been sent.
DeliveredIsClaimed ==
    \A r \in Runs :
        /\ (\E w \in Workers : Delivers(w, r)) =>
              \/ runs[r].status = "sending"
              \/ runs[r].status = "failed" /\ runs[r].certainty = "outcome_unknown"
        /\ runs[r].status = "failed" => runs[r].certainty # "confirmed_sent"
        /\ runs[r].status \in {"queued", "sending"} =>
              runs[r].certainty = "not_attempted"

\* A run has one delivering worker.
AloneOnRun == \A r \in Runs : \A v, w \in Workers :
                  Delivers(v, r) /\ Delivers(w, r) => v = w

\* How many messages a run has cost, by where its worker stands.
CountIsKnown ==
    /\ \A r \in Runs : /\ taken[r] <= 1
                       /\ runs[r].status \in {"absent", "queued"} => taken[r] = 0
    /\ \A w \in Workers :
        /\ pc[w] \in {"revalidate", "settings", "send"} => taken[work[w].run] = 0
        /\ pc[w] = "taken" => taken[work[w].run] = 1
        /\ pc[w] = "finish" =>
              /\ work[w].outcome # "none"
              /\ work[w].outcome = "confirmed_sent" => taken[work[w].run] = 1
              /\ work[w].outcome = "not_attempted" => taken[work[w].run] = 0

\* The draft is gone once a run was sent, and was reviewed while it is approved.
DraftIsOpen ==
    /\ (\E r \in Runs : runs[r].status = "sent") => task.draft = NoDraft
    /\ Staged /\ task.approved /\ task.draft # NoDraft => task.draft \in reviewed

\* A run that has a successor sent nothing and never will, or its successor was
\* approved with an acknowledgement.
GapAcknowledged ==
    \A i \in Runs : i < made =>
        \/ i + 1 \in acked
        \/ /\ runs[i].status = "failed" /\ taken[i] = 0
           /\ \A w \in Workers : ~Delivers(w, i)

IInv == /\ TypeOK
        /\ RunsInOrder /\ DeliveredIsClaimed /\ AloneOnRun /\ CountIsKnown
        /\ RecordIsTruthful /\ SwitchIsObeyed
        /\ DraftIsOpen /\ StagedTextWasReviewed /\ GapAcknowledged

LEMMA InitIInv == Init => IInv
<1> SUFFICES ASSUME Init PROVE IInv
  OBVIOUS
<1>1. TypeOK
  <2>1. task \in TaskType
    BY DEF Init, TaskType, TaskStatuses, Contents
  <2>2. NoRun \in RunType /\ NoJob \in JobType /\ NoWork \in WorkType
    BY DeliveryAssumption
    DEF NoRun, RunType, RunStatuses, Certainties, NoJob, JobType, NoWork, WorkType,
        Contents
  <2> QED
    BY <2>1, <2>2, DeliveryAssumption DEF Init, TypeOK, Places
<1>2. RunsInOrder
  BY DeliveryAssumption DEF Init, RunsInOrder, Runs, NoJob
<1>3. DeliveredIsClaimed /\ AloneOnRun /\ CountIsKnown /\ RecordIsTruthful
  BY DEF Init, DeliveredIsClaimed, AloneOnRun, CountIsKnown, RecordIsTruthful,
         Delivers, NoRun
<1>4. SwitchIsObeyed /\ DraftIsOpen /\ StagedTextWasReviewed
  BY DEF Init, SwitchIsObeyed, DraftIsOpen, StagedTextWasReviewed, NoRun
<1>5. GapAcknowledged
  BY DEF Init, GapAcknowledged, Runs
<1> QED
  BY <1>1, <1>2, <1>3, <1>4, <1>5 DEF IInv

\* A worker that is not idle has one of the runs made so far.
LEMMA WorkerHasRun ==
    ASSUME IInv, NEW w \in Workers, pc[w] # "idle"
    PROVE  /\ work[w].run \in Runs /\ work[w].run <= made
           /\ runs[work[w].run].status # "absent"
BY DEF IInv, RunsInOrder

------------------------------------------------------------------------------
(***************************************************************************)
(* Types.                                                                  *)
(***************************************************************************)

\* Writing the status and the certainty of a run.
LEMMA RunWritten ==
    ASSUME TypeOK, NEW r \in Runs, NEW s \in RunStatuses, NEW c \in Certainties,
           runs' = [runs EXCEPT ![r].status = s, ![r].certainty = c]
    PROVE  /\ runs' \in [Runs -> RunType]
           /\ \A q \in Runs \ {r} : runs'[q] = runs[q]
           /\ runs'[r].draft = runs[r].draft /\ runs'[r].after = runs[r].after
           /\ runs'[r].status = s /\ runs'[r].certainty = c
BY DEF TypeOK, RunType

\* A refusal after the claim writes the status alone.
LEMMA RunRefused ==
    ASSUME TypeOK, NEW w, work[w].run \in Runs, Refuse(w)
    PROVE  LET r == work[w].run
           IN /\ runs' \in [Runs -> RunType]
              /\ \A q \in Runs \ {r} : runs'[q] = runs[q]
              /\ runs'[r].draft = runs[r].draft /\ runs'[r].after = runs[r].after
              /\ runs'[r].status = "failed" /\ runs'[r].certainty = runs[r].certainty
BY DEF TypeOK, RunType, RunStatuses, Refuse

\* Writing the status of a job that loses its lease.
LEMMA JobWritten ==
    ASSUME TypeOK, NEW r \in Runs, NEW s \in {"pending", "completed", "failed"},
           jobs' = [jobs EXCEPT ![r].status = s, ![r].expired = FALSE]
    PROVE  /\ jobs' \in [Runs -> JobType]
           /\ \A q \in Runs \ {r} : jobs'[q] = jobs[q]
BY DEF TypeOK, JobType

\* A worker going somewhere takes nobody with it.
LEMMA WentTo ==
    ASSUME TypeOK, NEW w \in Workers, NEW place \in Places, GoTo(w, place)
    PROVE  /\ pc' \in [Workers -> Places] /\ pc'[w] = place
           /\ \A v \in Workers \ {w} : pc'[v] = pc[v]
           /\ work' = work
BY DEF TypeOK, GoTo

LEMMA WentIdle ==
    ASSUME TypeOK, NEW w \in Workers, GoIdle(w)
    PROVE  /\ pc' \in [Workers -> Places] /\ pc'[w] = "idle"
           /\ work' \in [Workers -> WorkType]
           /\ \A v \in Workers \ {w} : pc'[v] = pc[v] /\ work'[v] = work[v]
BY DeliveryAssumption
DEF TypeOK, GoIdle, Places, WorkType, NoWork, Contents

------------------------------------------------------------------------------
(***************************************************************************)
(* Workers.                                                                *)
(***************************************************************************)
Delivering(place) == place \in {"revalidate", "settings", "send", "taken", "finish"}

\* What most steps of a worker have in common: it writes nothing but its own
\* run, starts to deliver it only if it was queued, and changes it once it has
\* ended only while delivering it.
OnOwnRun(w) ==
    LET r == work[w].run
    IN /\ pc[w] # "idle"
       /\ pc'[w] = "idle" \/ work'[w].run = r
       /\ \A v \in Workers \ {w} : pc'[v] = pc[v] /\ work'[v] = work[v]
       /\ \A q \in Runs \ {r} : runs'[q] = runs[q] /\ taken'[q] = taken[q]
       /\ \A q \in Runs : jobs[q].status = "absent" => q = r \/ jobs'[q].status = "absent"
       /\ runs'[r].status # "absent"
       /\ runs'[r].draft = runs[r].draft /\ runs'[r].after = runs[r].after
       /\ Delivering(pc'[w]) => Delivering(pc[w]) \/ runs[r].status = "queued"
       /\ \/ Delivering(pc[w]) \/ runs[r].status \in {"queued", "sending"}
          \/ runs'[r] = runs[r] /\ taken'[r] = taken[r]
       /\ UNCHANGED <<enabled, made, acked, reviewed>>

\* Such a step keeps the order of the runs and does not cross another worker's.
LEMMA OwnRunKeeps ==
    ASSUME IInv, NEW w \in Workers, OnOwnRun(w)
    PROVE  RunsInOrder' /\ AloneOnRun' /\ StagedTextWasReviewed' /\ GapAcknowledged'
<1> DEFINE r == work[w].run
<1>1. r \in Runs /\ r <= made /\ runs[r].status # "absent"
  BY WorkerHasRun DEF OnOwnRun
<1>2. RunsInOrder'
  BY <1>1 DEF OnOwnRun, IInv, RunsInOrder
<1>3. \A v \in Workers \ {w}, q \in Runs : Delivers(v, q)' <=> Delivers(v, q)
  BY DEF OnOwnRun, Delivers
<1>4. \A q \in Runs : Delivers(w, q)' =>
          q = r /\ (Delivers(w, r) \/ runs[r].status = "queued")
  BY DEF OnOwnRun, Delivers, Delivering
<1>5. AloneOnRun'
  <2>1. runs[r].status = "queued" => \A v \in Workers : ~Delivers(v, r)
    BY <1>1 DEF IInv, DeliveredIsClaimed
  <2> QED
    BY <1>1, <1>3, <1>4, <2>1 DEF IInv, AloneOnRun
<1>6. StagedTextWasReviewed'
  BY <1>1 DEF OnOwnRun, IInv, StagedTextWasReviewed
<1>7. GapAcknowledged'
  <2> SUFFICES ASSUME NEW i \in Runs, i < made, i + 1 \notin acked
               PROVE  /\ runs'[i].status = "failed" /\ taken'[i] = 0
                      /\ \A v \in Workers : ~Delivers(v, i)'
    BY DEF OnOwnRun, GapAcknowledged
  <2>1. /\ runs[i].status = "failed" /\ taken[i] = 0
        /\ \A v \in Workers : ~Delivers(v, i)
    BY DEF IInv, GapAcknowledged
  <2>2. CASE i # r
    BY <1>3, <1>4, <2>1, <2>2 DEF OnOwnRun
  <2>3. CASE i = r
    <3>1. ~Delivering(pc[w]) /\ runs[r].status \notin {"queued", "sending"}
      BY <2>1, <2>3 DEF Delivering, Delivers
    <3> QED
      BY <1>3, <1>4, <2>1, <2>3, <3>1 DEF OnOwnRun
  <2> QED
    BY <2>2, <2>3
<1> QED
  BY <1>2, <1>5, <1>6, <1>7

\* What is left to show for such a step.
LEMMA OwnRunSuffices ==
    ASSUME IInv, NEW w \in Workers, OnOwnRun(w), TypeOK',
           DeliveredIsClaimed', CountIsKnown', RecordIsTruthful', SwitchIsObeyed',
           DraftIsOpen'
    PROVE  IInv'
BY OwnRunKeeps DEF IInv

LEMMA CheckInterruptedKeeps ==
    ASSUME IInv, NEW w \in Workers, CheckInterrupted(w)
    PROVE  IInv'
<1> DEFINE r == work[w].run
<1>1. /\ r \in Runs /\ pc[w] = "check"
      /\ UNCHANGED <<task, enabled, made, jobs, taken, acked, reviewed, faults>>
  BY WorkerHasRun DEF CheckInterrupted, historyVars
<1>2. PICK place \in {"begin", "done"} : GoTo(w, place)
  BY DEF CheckInterrupted
<1>3. /\ pc' \in [Workers -> Places] /\ pc'[w] \in {"begin", "done"} /\ work' = work
      /\ \A v \in Workers \ {w} : pc'[v] = pc[v]
  BY <1>2, WentTo DEF IInv, Places
<1>4. \A v \in Workers, q \in Runs : Delivers(v, q)' <=> Delivers(v, q)
  BY <1>1, <1>3 DEF Delivers
<1>5. CASE UNCHANGED runs
  <2>1. OnOwnRun(w)
    BY <1>1, <1>3, <1>5, WorkerHasRun DEF OnOwnRun, Delivering
  <2> QED
    BY <1>1, <1>3, <1>4, <1>5, <2>1, OwnRunSuffices
    DEF IInv, TypeOK, DeliveredIsClaimed, CountIsKnown, RecordIsTruthful,
        SwitchIsObeyed, DraftIsOpen
<1>6. CASE /\ runs[r].status = "sending"
           /\ runs' = [runs EXCEPT ![r].status = "failed",
                                   ![r].certainty = "outcome_unknown"]
  <2>1. /\ runs' \in [Runs -> RunType] /\ \A q \in Runs \ {r} : runs'[q] = runs[q]
        /\ runs'[r].draft = runs[r].draft /\ runs'[r].after = runs[r].after
        /\ runs'[r].status = "failed" /\ runs'[r].certainty = "outcome_unknown"
    BY <1>1, <1>6, RunWritten DEF IInv, RunStatuses, Certainties
  <2>2. OnOwnRun(w)
    BY <1>1, <1>3, <1>6, <2>1 DEF OnOwnRun, Delivering
  <2>3. TypeOK' /\ SwitchIsObeyed' /\ DraftIsOpen'
    BY <1>1, <1>3, <2>1 DEF IInv, TypeOK, SwitchIsObeyed, DraftIsOpen
  <2>4. DeliveredIsClaimed'
    BY <1>1, <1>4, <2>1 DEF IInv, DeliveredIsClaimed
  <2>5. CountIsKnown' /\ RecordIsTruthful'
    BY <1>1, <1>3, <2>1 DEF IInv, CountIsKnown, RecordIsTruthful
  <2> QED
    BY <2>2, <2>3, <2>4, <2>5, OwnRunSuffices
<1> QED
  BY <1>5, <1>6 DEF CheckInterrupted

LEMMA IgnoreKeeps ==
    ASSUME IInv, NEW w \in Workers, Ignore(w)
    PROVE  IInv'
<1>1. /\ work[w].run \in Runs /\ runs[work[w].run].status # "absent"
      /\ pc[w] = "begin"
      /\ UNCHANGED <<task, enabled, made, runs, jobs, taken, acked, reviewed, faults>>
  BY WorkerHasRun DEF Ignore, queueVars, historyVars
<1>2. /\ pc' \in [Workers -> Places] /\ pc'[w] = "done" /\ work' = work
      /\ \A v \in Workers \ {w} : pc'[v] = pc[v]
  BY WentTo DEF Ignore, IInv, Places
<1>3. OnOwnRun(w)
  BY <1>1, <1>2 DEF OnOwnRun, Delivering
<1>4. \A v \in Workers, q \in Runs : Delivers(v, q)' <=> Delivers(v, q)
  BY <1>1, <1>2 DEF Delivers
<1> QED
  BY <1>1, <1>2, <1>3, <1>4, OwnRunSuffices
  DEF IInv, TypeOK, DeliveredIsClaimed, CountIsKnown, RecordIsTruthful,
      SwitchIsObeyed, DraftIsOpen

LEMMA RecordNoSendKeeps ==
    ASSUME IInv, NEW w \in Workers, NEW authorized \in BOOLEAN,
           RecordNoSend(w, authorized)
    PROVE  IInv'
<1> DEFINE r == work[w].run
<1>1. /\ r \in Runs /\ runs[r].status # "absent" /\ pc[w] = "begin"
      /\ UNCHANGED <<task, enabled, made, jobs, taken, acked, reviewed, faults>>
  BY WorkerHasRun DEF RecordNoSend, historyVars
<1>2. /\ pc' \in [Workers -> Places] /\ pc'[w] = "done" /\ work' = work
      /\ \A v \in Workers \ {w} : pc'[v] = pc[v]
  BY WentTo DEF RecordNoSend, IInv, Places
<1>3. \/ runs' = runs
      \/ /\ runs[r].status = "queued"
         /\ runs' \in [Runs -> RunType] /\ \A q \in Runs \ {r} : runs'[q] = runs[q]
         /\ runs'[r].draft = runs[r].draft /\ runs'[r].after = runs[r].after
         /\ runs'[r].status = "failed" /\ runs'[r].certainty = "not_attempted"
  BY <1>1, RunWritten DEF RecordNoSend, IInv, RunStatuses, Certainties
<1>4. \A v \in Workers, q \in Runs : Delivers(v, q)' <=> Delivers(v, q)
  BY <1>1, <1>2 DEF Delivers
<1>5. OnOwnRun(w)
  BY <1>1, <1>2, <1>3 DEF OnOwnRun, Delivering
<1>6. TypeOK' /\ SwitchIsObeyed' /\ DraftIsOpen'
  BY <1>1, <1>2, <1>3 DEF IInv, TypeOK, SwitchIsObeyed, DraftIsOpen
<1>7. DeliveredIsClaimed'
  BY <1>1, <1>3, <1>4 DEF IInv, DeliveredIsClaimed
<1>8. CountIsKnown' /\ RecordIsTruthful'
  BY <1>1, <1>2, <1>3 DEF IInv, CountIsKnown, RecordIsTruthful
<1> QED
  BY <1>5, <1>6, <1>7, <1>8, OwnRunSuffices

LEMMA ClaimRunKeeps ==
    ASSUME IInv, NEW w \in Workers, ClaimRun(w)
    PROVE  IInv'
<1> DEFINE r == work[w].run
<1>1. /\ r \in Runs /\ runs[r].status # "absent" /\ pc[w] = "begin"
      /\ UNCHANGED <<task, enabled, made, jobs, taken, acked, reviewed, faults>>
  BY WorkerHasRun DEF ClaimRun, historyVars
<1>2. CASE GoTo(w, "done") /\ UNCHANGED runs
  <2>1. /\ pc' \in [Workers -> Places] /\ pc'[w] = "done" /\ work' = work
        /\ \A v \in Workers \ {w} : pc'[v] = pc[v]
    BY <1>2, WentTo DEF IInv, Places
  <2>2. OnOwnRun(w)
    BY <1>1, <1>2, <2>1 DEF OnOwnRun, Delivering
  <2>3. \A v \in Workers, q \in Runs : Delivers(v, q)' <=> Delivers(v, q)
    BY <1>1, <2>1 DEF Delivers
  <2> QED
    BY <1>1, <1>2, <2>1, <2>2, <2>3, OwnRunSuffices
    DEF IInv, TypeOK, DeliveredIsClaimed, CountIsKnown, RecordIsTruthful,
        SwitchIsObeyed, DraftIsOpen
<1>3. CASE /\ runs[r].status = "queued"
           /\ runs' = [runs EXCEPT ![r].status = "sending",
                                   ![r].certainty = "not_attempted"]
           /\ pc' = [pc EXCEPT ![w] = "revalidate"]
           /\ work' = [work EXCEPT ![w].draft = task.draft]
  <2>1. /\ runs' \in [Runs -> RunType] /\ \A q \in Runs \ {r} : runs'[q] = runs[q]
        /\ runs'[r].draft = runs[r].draft /\ runs'[r].after = runs[r].after
        /\ runs'[r].status = "sending" /\ runs'[r].certainty = "not_attempted"
    BY <1>1, <1>3, RunWritten DEF IInv, RunStatuses, Certainties
  <2>2. /\ pc' \in [Workers -> Places] /\ pc'[w] = "revalidate"
        /\ work' \in [Workers -> WorkType] /\ work'[w].run = r
        /\ \A v \in Workers \ {w} : pc'[v] = pc[v] /\ work'[v] = work[v]
    <3>1. work[w] \in WorkType /\ task.draft \in Contents
      BY DEF IInv, TypeOK, TaskType
    <3>2. [work[w] EXCEPT !.draft = task.draft] \in WorkType
      BY <3>1 DEF WorkType
    <3> QED
      BY <1>3, <3>1, <3>2 DEF IInv, TypeOK, Places, WorkType
  <2>3. OnOwnRun(w)
    BY <1>1, <1>3, <2>1, <2>2 DEF OnOwnRun
  <2>4. TypeOK' /\ SwitchIsObeyed' /\ DraftIsOpen'
    BY <1>1, <2>1, <2>2 DEF IInv, TypeOK, SwitchIsObeyed, DraftIsOpen
  <2>5. DeliveredIsClaimed'
    <3>1. \A v \in Workers, q \in Runs \ {r} : Delivers(v, q)' <=> Delivers(v, q)
      BY <1>1, <2>2 DEF Delivers
    <3>2. DeliveredIsClaimed
      BY DEF IInv
    <3> SUFFICES ASSUME NEW q \in Runs
                 PROVE  /\ (\E v \in Workers : Delivers(v, q)') =>
                              \/ runs'[q].status = "sending"
                              \/ /\ runs'[q].status = "failed"
                                 /\ runs'[q].certainty = "outcome_unknown"
                        /\ runs'[q].status = "failed" =>
                              runs'[q].certainty # "confirmed_sent"
                        /\ runs'[q].status \in {"queued", "sending"} =>
                              runs'[q].certainty = "not_attempted"
      BY DEF DeliveredIsClaimed
    <3>3. CASE q = r
      BY <2>1, <3>3
    <3>4. CASE q # r
      BY <2>1, <3>1, <3>2, <3>4 DEF DeliveredIsClaimed
    <3> QED
      BY <3>3, <3>4
  <2>6. CountIsKnown' /\ RecordIsTruthful'
    <3>1. taken[r] = 0 /\ taken' = taken /\ CountIsKnown /\ RecordIsTruthful
      BY <1>1, <1>3 DEF IInv, CountIsKnown
    <3>2. RecordIsTruthful'
      BY <1>1, <2>1, <3>1 DEF RecordIsTruthful
    <3>3. CountIsKnown'
      BY <1>1, <2>1, <2>2, <3>1 DEF CountIsKnown
    <3> QED
      BY <3>2, <3>3
  <2> QED
    BY <2>3, <2>4, <2>5, <2>6, OwnRunSuffices
<1> QED
  BY <1>2, <1>3 DEF ClaimRun

\* The refusals after the claim, before the authority and before the switch.
LEMMA RefusalKeeps ==
    ASSUME IInv, NEW w \in Workers, pc[w] \in {"revalidate", "settings"},
           GoTo(w, "done"), Refuse(w),
           UNCHANGED <<task, enabled, made, jobs, historyVars, faults>>
    PROVE  IInv'
<1> DEFINE r == work[w].run
<1>1. /\ r \in Runs /\ runs[r].status # "absent" /\ Delivers(w, r) /\ taken[r] = 0
      /\ UNCHANGED <<task, enabled, made, jobs, taken, acked, reviewed, faults>>
  BY WorkerHasRun DEF historyVars, IInv, CountIsKnown, Delivers
<1>2. /\ pc' \in [Workers -> Places] /\ pc'[w] = "done" /\ work' = work
      /\ \A v \in Workers \ {w} : pc'[v] = pc[v]
  BY WentTo DEF IInv, Places
<1>3. /\ runs' \in [Runs -> RunType] /\ \A q \in Runs \ {r} : runs'[q] = runs[q]
      /\ runs'[r].draft = runs[r].draft /\ runs'[r].after = runs[r].after
      /\ runs'[r].status = "failed" /\ runs'[r].certainty = runs[r].certainty
  BY <1>1, RunRefused DEF IInv
<1>4. OnOwnRun(w)
  BY <1>1, <1>2, <1>3 DEF OnOwnRun, Delivering
<1>5. TypeOK' /\ SwitchIsObeyed' /\ DraftIsOpen'
  BY <1>1, <1>2, <1>3 DEF IInv, TypeOK, SwitchIsObeyed, DraftIsOpen
<1>6. DeliveredIsClaimed'
  <2>1. \A v \in Workers, q \in Runs : q = r => ~Delivers(v, q)'
    BY <1>1, <1>2 DEF IInv, AloneOnRun, Delivers
  <2>2. \A v \in Workers, q \in Runs \ {r} : Delivers(v, q)' <=> Delivers(v, q)
    BY <1>1, <1>2 DEF Delivers
  <2>3. runs[r].certainty # "confirmed_sent"
    BY <1>1 DEF IInv, DeliveredIsClaimed
  <2> QED
    BY <1>1, <1>3, <2>1, <2>2, <2>3 DEF IInv, DeliveredIsClaimed
<1>7. CountIsKnown' /\ RecordIsTruthful'
  BY <1>1, <1>2, <1>3 DEF IInv, CountIsKnown, RecordIsTruthful
<1> QED
  BY <1>4, <1>5, <1>6, <1>7, OwnRunSuffices

LEMMA RevalidateKeeps ==
    ASSUME IInv, NEW w \in Workers, NEW authorized \in BOOLEAN,
           Revalidate(w, authorized)
    PROVE  IInv'
<1>1. CASE GoTo(w, "settings") /\ UNCHANGED runs
  <2>1. /\ work[w].run \in Runs /\ runs[work[w].run].status # "absent"
        /\ pc[w] = "revalidate"
        /\ UNCHANGED <<task, enabled, made, runs, jobs, taken, acked, reviewed, faults>>
    BY <1>1, WorkerHasRun DEF Revalidate, historyVars
  <2>2. /\ pc' \in [Workers -> Places] /\ pc'[w] = "settings" /\ work' = work
        /\ \A v \in Workers \ {w} : pc'[v] = pc[v]
    BY <1>1, WentTo DEF IInv, Places
  <2>3. OnOwnRun(w)
    BY <2>1, <2>2 DEF OnOwnRun, Delivering
  <2>4. \A v \in Workers, q \in Runs : Delivers(v, q)' <=> Delivers(v, q)
    BY <2>1, <2>2 DEF Delivers
  <2> QED
    BY <2>1, <2>2, <2>3, <2>4, OwnRunSuffices
    DEF IInv, TypeOK, DeliveredIsClaimed, CountIsKnown, RecordIsTruthful,
        SwitchIsObeyed, DraftIsOpen
<1>2. CASE GoTo(w, "done") /\ Refuse(w)
  BY <1>2, RefusalKeeps DEF Revalidate
<1> QED
  BY <1>1, <1>2 DEF Revalidate

\* The one way to the send is past the switch.
LEMMA CheckSettingsKeeps ==
    ASSUME IInv, NEW w \in Workers, CheckSettings(w)
    PROVE  IInv'
<1>1. CASE enabled /\ GoTo(w, "send") /\ UNCHANGED runs
  <2>1. /\ work[w].run \in Runs /\ runs[work[w].run].status # "absent"
        /\ pc[w] = "settings" /\ enabled
        /\ UNCHANGED <<task, enabled, made, runs, jobs, taken, acked, reviewed, faults>>
    BY <1>1, WorkerHasRun DEF CheckSettings, historyVars
  <2>2. /\ pc' \in [Workers -> Places] /\ pc'[w] = "send" /\ work' = work
        /\ \A v \in Workers \ {w} : pc'[v] = pc[v]
    BY <1>1, WentTo DEF IInv, Places
  <2>3. OnOwnRun(w)
    BY <2>1, <2>2 DEF OnOwnRun, Delivering
  <2>4. \A v \in Workers, q \in Runs : Delivers(v, q)' <=> Delivers(v, q)
    BY <2>1, <2>2 DEF Delivers
  <2> QED
    BY <2>1, <2>2, <2>3, <2>4, OwnRunSuffices
    DEF IInv, TypeOK, DeliveredIsClaimed, CountIsKnown, RecordIsTruthful,
        SwitchIsObeyed, DraftIsOpen
<1>2. CASE GoTo(w, "done") /\ Refuse(w)
  BY <1>2, RefusalKeeps DEF CheckSettings
<1> QED
  BY <1>1, <1>2 DEF CheckSettings

LEMMA ProviderTakesKeeps ==
    ASSUME IInv, NEW w \in Workers, ProviderTakes(w)
    PROVE  IInv'
<1> DEFINE r == work[w].run
<1>1. /\ r \in Runs /\ runs[r].status # "absent" /\ pc[w] = "send"
      /\ Delivers(w, r) /\ taken[r] = 0
      /\ UNCHANGED <<task, enabled, made, runs, jobs, acked, reviewed, faults>>
  BY WorkerHasRun DEF ProviderTakes, queueVars, IInv, CountIsKnown, Delivers
<1>2. /\ pc' \in [Workers -> Places] /\ pc'[w] = "taken" /\ work' = work
      /\ \A v \in Workers \ {w} : pc'[v] = pc[v]
  BY WentTo DEF ProviderTakes, IInv, Places
<1>3. /\ taken' \in [Runs -> Nat] /\ taken'[r] = 1
      /\ \A q \in Runs \ {r} : taken'[q] = taken[q]
  BY <1>1 DEF ProviderTakes, IInv, TypeOK
<1>4. \A v \in Workers, q \in Runs : Delivers(v, q)' <=> Delivers(v, q)
  BY <1>1, <1>2 DEF Delivers
<1>5. OnOwnRun(w)
  BY <1>1, <1>2, <1>3 DEF OnOwnRun, Delivering
<1>6. TypeOK' /\ SwitchIsObeyed' /\ DraftIsOpen'
  BY <1>1, <1>2, <1>3 DEF IInv, TypeOK, SwitchIsObeyed, DraftIsOpen
<1>7. DeliveredIsClaimed'
  BY <1>1, <1>4 DEF IInv, DeliveredIsClaimed
\* The run is being delivered, so it is neither queued nor said to be unsent,
\* and no other worker counts on what was taken for it.
<1>8. /\ runs[r].status \in {"sending", "failed"}
      /\ runs[r].status = "failed" => runs[r].certainty = "outcome_unknown"
  BY <1>1 DEF IInv, DeliveredIsClaimed
<1>9. \A v \in Workers \ {w} : ~Delivers(v, r)
  BY <1>1 DEF IInv, AloneOnRun
<1>10. CountIsKnown'
  <2>1. \A q \in Runs : /\ taken'[q] <= 1
                        /\ runs'[q].status \in {"absent", "queued"} => taken'[q] = 0
    BY <1>1, <1>3, <1>8 DEF IInv, CountIsKnown
  <2>2. ASSUME NEW v \in Workers \ {w},
               pc[v] \in {"revalidate", "settings", "send", "taken", "finish"}
        PROVE  taken'[work[v].run] = taken[work[v].run]
    BY <1>3, <1>9, <2>2, WorkerHasRun DEF Delivers
  <2> QED
    BY <1>1, <1>2, <1>3, <2>1, <2>2 DEF IInv, CountIsKnown
<1>11. RecordIsTruthful'
  BY <1>1, <1>3, <1>8 DEF IInv, RecordIsTruthful
<1> QED
  BY <1>5, <1>6, <1>7, <1>10, <1>11, OwnRunSuffices

LEMMA HandlerReturnsKeeps ==
    ASSUME IInv, NEW w \in Workers, HandlerReturns(w)
    PROVE  IInv'
<1> DEFINE r == work[w].run
<1>1. /\ r \in Runs /\ runs[r].status # "absent" /\ pc[w] \in {"send", "taken"}
      /\ taken[r] = (IF pc[w] = "send" THEN 0 ELSE 1)
      /\ UNCHANGED <<task, enabled, made, runs, jobs, taken, acked, reviewed, faults>>
  BY WorkerHasRun DEF HandlerReturns, queueVars, historyVars, IInv, CountIsKnown
<1>2. PICK result \in IF pc[w] = "send" THEN {"not_attempted", "outcome_unknown"}
                      ELSE {"confirmed_sent", "outcome_unknown"} :
        work' = [work EXCEPT ![w].outcome = result]
  BY DEF HandlerReturns
<1>3. /\ pc' \in [Workers -> Places] /\ pc'[w] = "finish"
      /\ work' \in [Workers -> WorkType]
      /\ work'[w].run = r /\ work'[w].outcome = result
      /\ \A v \in Workers \ {w} : pc'[v] = pc[v] /\ work'[v] = work[v]
  BY <1>2 DEF HandlerReturns, IInv, TypeOK, Places, WorkType, Certainties
<1>4. \A v \in Workers, q \in Runs : Delivers(v, q)' <=> Delivers(v, q)
  BY <1>1, <1>3 DEF Delivers
<1>5. OnOwnRun(w)
  BY <1>1, <1>3 DEF OnOwnRun, Delivering
<1>6. TypeOK' /\ SwitchIsObeyed' /\ DraftIsOpen'
  BY <1>1, <1>3 DEF IInv, TypeOK, SwitchIsObeyed, DraftIsOpen
<1>7. DeliveredIsClaimed' /\ RecordIsTruthful'
  BY <1>1, <1>4 DEF IInv, DeliveredIsClaimed, RecordIsTruthful
<1>8. CountIsKnown'
  BY <1>1, <1>2, <1>3 DEF IInv, CountIsKnown
<1> QED
  BY <1>5, <1>6, <1>7, <1>8, OwnRunSuffices

LEMMA RecordOutcomeKeeps ==
    ASSUME IInv, NEW w \in Workers, RecordOutcome(w)
    PROVE  IInv'
<1> DEFINE r == work[w].run
           outcome == work[w].outcome
           end == IF outcome = "confirmed_sent" THEN "sent" ELSE "failed"
<1>1. /\ r \in Runs /\ runs[r].status # "absent" /\ pc[w] = "finish"
      /\ Delivers(w, r) /\ outcome \in Certainties
      /\ outcome = "confirmed_sent" => taken[r] = 1
      /\ outcome = "not_attempted" => taken[r] = 0
      /\ UNCHANGED <<enabled, made, jobs, taken, acked, reviewed, faults>>
  BY WorkerHasRun
  DEF RecordOutcome, historyVars, IInv, CountIsKnown, TypeOK, WorkType, Delivers
<1>2. /\ pc' \in [Workers -> Places] /\ pc'[w] = "done" /\ work' = work
      /\ \A v \in Workers \ {w} : pc'[v] = pc[v]
  BY WentTo DEF RecordOutcome, IInv, Places
<1>3. /\ runs' \in [Runs -> RunType] /\ \A q \in Runs \ {r} : runs'[q] = runs[q]
      /\ runs'[r].draft = runs[r].draft /\ runs'[r].after = runs[r].after
      /\ runs'[r].status = end /\ runs'[r].certainty = outcome
  <2>1. runs' = [runs EXCEPT ![r].status = end, ![r].certainty = outcome]
    BY DEF RecordOutcome
  <2>2. end \in RunStatuses /\ outcome \in Certainties /\ TypeOK
    BY <1>1 DEF IInv, RunStatuses
  <2> HIDE DEF end, outcome
  <2> QED
    BY <1>1, <2>1, <2>2 DEF TypeOK, RunType
<1>4. /\ task' \in TaskType /\ task'.approved = task.approved
      /\ task'.draft = IF end = "sent" THEN NoDraft ELSE task.draft
  BY DEF RecordOutcome, IInv, TypeOK, TaskType, Contents
<1>5. OnOwnRun(w)
  BY <1>1, <1>2, <1>3 DEF OnOwnRun, Delivering
<1>6. TypeOK' /\ SwitchIsObeyed'
  BY <1>1, <1>2, <1>3, <1>4 DEF IInv, TypeOK, SwitchIsObeyed
<1>7. DraftIsOpen'
  BY <1>1, <1>3, <1>4 DEF IInv, DraftIsOpen
<1>8. DeliveredIsClaimed'
  <2>1. \A v \in Workers, q \in Runs : q = r => ~Delivers(v, q)'
    BY <1>1, <1>2 DEF IInv, AloneOnRun, Delivers
  <2>2. \A v \in Workers, q \in Runs \ {r} : Delivers(v, q)' <=> Delivers(v, q)
    BY <1>1, <1>2 DEF Delivers
  <2> QED
    BY <1>1, <1>3, <2>1, <2>2 DEF IInv, DeliveredIsClaimed
<1>9. CountIsKnown' /\ RecordIsTruthful'
  BY <1>1, <1>2, <1>3 DEF IInv, CountIsKnown, RecordIsTruthful
<1> QED
  BY <1>5, <1>6, <1>7, <1>8, <1>9, OwnRunSuffices

\* The job ends its attempt, one way or another, and its worker is free: done,
\* failed by the infrastructure, or dead.
LEMMA AttemptEnds ==
    ASSUME IInv, NEW w \in Workers, pc[w] # "idle", GoIdle(w),
           jobs' \in [Runs -> JobType], faults' \in 0..MaxFaults,
           \A q \in Runs \ {work[w].run} : jobs'[q] = jobs[q],
           UNCHANGED <<task, enabled, made, runs, historyVars>>
    PROVE  IInv'
<1> DEFINE r == work[w].run
<1>1. /\ r \in Runs /\ runs[r].status # "absent"
      /\ UNCHANGED <<taken, acked, reviewed>>
  BY WorkerHasRun DEF historyVars
<1>2. /\ pc' \in [Workers -> Places] /\ pc'[w] = "idle"
      /\ work' \in [Workers -> WorkType]
      /\ \A v \in Workers \ {w} : pc'[v] = pc[v] /\ work'[v] = work[v]
  BY WentIdle DEF IInv
<1>3. \A v \in Workers, q \in Runs : Delivers(v, q)' => Delivers(v, q)
  BY <1>2 DEF Delivers
<1>4. OnOwnRun(w)
  BY <1>1, <1>2 DEF OnOwnRun, Delivering
<1>5. TypeOK' /\ SwitchIsObeyed' /\ DraftIsOpen'
  BY <1>1, <1>2 DEF IInv, TypeOK, SwitchIsObeyed, DraftIsOpen
<1>6. DeliveredIsClaimed'
  BY <1>3 DEF IInv, DeliveredIsClaimed
<1>7. CountIsKnown' /\ RecordIsTruthful'
  BY <1>1, <1>2 DEF IInv, CountIsKnown, RecordIsTruthful
<1> QED
  BY <1>4, <1>5, <1>6, <1>7, OwnRunSuffices

LEMMA FinishJobKeeps ==
    ASSUME IInv, NEW w \in Workers, FinishJob(w)
    PROVE  IInv'
<1>1. \/ jobs' = jobs
      \/ jobs' = [jobs EXCEPT ![work[w].run].status = "completed",
                              ![work[w].run].expired = FALSE]
  BY DEF FinishJob
<1>2. work[w].run \in Runs /\ TypeOK
  BY WorkerHasRun DEF FinishJob, IInv
<1>3. /\ jobs' \in [Runs -> JobType]
      /\ \A q \in Runs \ {work[w].run} : jobs'[q] = jobs[q]
  BY <1>1, <1>2, JobWritten DEF TypeOK
<1> QED
  BY <1>3, AttemptEnds DEF FinishJob, IInv, TypeOK

LEMMA InfraFailureKeeps ==
    ASSUME IInv, NEW w \in Workers, InfraFailure(w)
    PROVE  IInv'
<1>1. PICK s \in {"pending", "failed"} :
        jobs' = [jobs EXCEPT ![work[w].run].status = s, ![work[w].run].expired = FALSE]
  BY DEF InfraFailure
<1>2. /\ jobs' \in [Runs -> JobType]
      /\ \A q \in Runs \ {work[w].run} : jobs'[q] = jobs[q]
  <2>1. work[w].run \in Runs /\ TypeOK
    BY WorkerHasRun DEF InfraFailure, IInv
  <2> QED
    BY <1>1, <2>1, JobWritten
<1>3. faults' \in 0..MaxFaults
  BY DeliveryAssumption DEF InfraFailure, IInv, TypeOK
<1> QED
  BY <1>2, <1>3, AttemptEnds DEF InfraFailure

LEMMA CrashKeeps ==
    ASSUME IInv, NEW w \in Workers, Crash(w)
    PROVE  IInv'
<1>1. faults' \in 0..MaxFaults
  BY DeliveryAssumption DEF Crash, IInv, TypeOK
<1> QED
  BY <1>1, AttemptEnds DEF Crash, IInv, TypeOK, queueVars

LEMMA StartAttemptKeeps ==
    ASSUME IInv, NEW w \in Workers, NEW r \in Runs, StartAttempt(w, r)
    PROVE  IInv'
<1>1. /\ r <= made /\ runs[r].status # "absent" /\ pc[w] = "idle"
      /\ UNCHANGED <<task, enabled, made, runs, taken, acked, reviewed, faults>>
  BY DEF StartAttempt, Unclaimed, historyVars, IInv, RunsInOrder
<1>2. /\ jobs' \in [Runs -> JobType]
      /\ \A q \in Runs \ {r} : jobs'[q] = jobs[q]
      /\ jobs[r].attempts + 1 \in 0..MaxAttempts
  BY DeliveryAssumption DEF StartAttempt, IInv, TypeOK, JobType
<1>3. /\ pc' \in [Workers -> Places] /\ pc'[w] \in {"begin", "check"}
      /\ work' \in [Workers -> WorkType] /\ work'[w].run = r
      /\ \A v \in Workers \ {w} : pc'[v] = pc[v] /\ work'[v] = work[v]
  BY <1>2, DeliveryAssumption
  DEF StartAttempt, IInv, TypeOK, Places, WorkType, Contents, Runs
<1>4. \A v \in Workers, q \in Runs : Delivers(v, q)' <=> Delivers(v, q)
  BY <1>1, <1>3 DEF Delivers
<1>5. TypeOK'
  BY <1>1, <1>2, <1>3 DEF IInv, TypeOK
<1>6. RunsInOrder'
  BY <1>1, <1>2, <1>3 DEF IInv, RunsInOrder
<1>7. DeliveredIsClaimed' /\ AloneOnRun' /\ GapAcknowledged'
  BY <1>1, <1>4 DEF IInv, DeliveredIsClaimed, AloneOnRun, GapAcknowledged
<1>8. CountIsKnown' /\ RecordIsTruthful' /\ SwitchIsObeyed'
  BY <1>1, <1>3 DEF IInv, CountIsKnown, RecordIsTruthful, SwitchIsObeyed
<1>9. DraftIsOpen' /\ StagedTextWasReviewed'
  BY <1>1 DEF IInv, DraftIsOpen, StagedTextWasReviewed
<1> QED
  BY <1>5, <1>6, <1>7, <1>8, <1>9 DEF IInv

LEMMA LeaseExpiresKeeps ==
    ASSUME IInv, NEW r \in Runs, LeaseExpires(r)
    PROVE  IInv'
<1>1. /\ jobs' \in [Runs -> JobType]
      /\ \A q \in Runs : jobs'[q].status = jobs[q].status
  BY DEF LeaseExpires, IInv, TypeOK, JobType
<1>2. UNCHANGED <<task, enabled, made, runs, pc, work, taken, acked, reviewed, faults>>
  BY DEF LeaseExpires, workerVars, historyVars
<1>3. \A v \in Workers, q \in Runs : Delivers(v, q)' <=> Delivers(v, q)
  BY <1>2 DEF Delivers
<1>4. TypeOK' /\ RunsInOrder' /\ CountIsKnown' /\ RecordIsTruthful' /\ SwitchIsObeyed'
  BY <1>1, <1>2 DEF IInv, TypeOK, RunsInOrder, CountIsKnown, RecordIsTruthful,
                    SwitchIsObeyed
<1>5. DeliveredIsClaimed' /\ AloneOnRun' /\ GapAcknowledged'
  BY <1>2, <1>3 DEF IInv, DeliveredIsClaimed, AloneOnRun, GapAcknowledged
<1>6. DraftIsOpen' /\ StagedTextWasReviewed'
  BY <1>2 DEF IInv, DraftIsOpen, StagedTextWasReviewed
<1> QED
  BY <1>4, <1>5, <1>6 DEF IInv

------------------------------------------------------------------------------
(***************************************************************************)
(* Reviewers.                                                              *)
(***************************************************************************)

\* When an approval may queue a run, the last run failed: no run was sent, for
\* the draft is still there.  So its key is newer than any earlier run's.
LEMMA RetryIsNew ==
    ASSUME IInv, task.draft \in Drafts, NEW acknowledged, Approvable(acknowledged)
    PROVE  /\ made > 0 => LastFailed
           /\ \A r \in Runs : r <= made => runs[r].after < made + 1
                                           /\ runs[r].after # RetryAfter
<1>1. made \in Nat /\ Runs \subseteq Nat /\ \A r \in Runs : runs[r].after \in Nat
  BY DeliveryAssumption DEF IInv, TypeOK, RunType, Runs
<1>2. made > 0 => LastFailed
  <2> SUFFICES ASSUME made > 0 PROVE LastFailed
    OBVIOUS
  <2>1. made \in Runs /\ runs[made] \in RunType /\ made \in 1..made
    BY <1>1, DeliveryAssumption DEF IInv, TypeOK, Runs
  <2>2. runs[made].status \notin {"absent", "queued", "sending"}
    BY <1>1, <2>1 DEF IInv, RunsInOrder, Approvable, Active
  <2>3. runs[made].status # "sent"
    BY <2>1, DeliveryAssumption DEF IInv, DraftIsOpen
  <2> QED
    BY <2>1, <2>2, <2>3 DEF LastFailed, RunType, RunStatuses
<1>3. ASSUME NEW r \in Runs, r <= made
      PROVE  runs[r].after < made + 1 /\ runs[r].after # RetryAfter
  <2>1. runs[r].after < r /\ r \in Nat /\ runs[r].after \in Nat /\ r > 0
    BY <1>1, <1>3 DEF IInv, RunsInOrder, Runs
  <2>2. LastFailed
    BY <1>1, <1>2, <1>3, <2>1
  <2> QED
    BY <1>1, <1>3, <2>1, <2>2 DEF RetryAfter
<1> QED
  BY <1>2, <1>3

\* So an approval of a draft always makes a run of its own.
LEMMA QueueRunMakes ==
    ASSUME IInv, task.draft \in Drafts, made < MaxRuns, NEW acknowledged \in BOOLEAN,
           Approvable(acknowledged), QueueRun(acknowledged)
    PROVE  /\ made' = made + 1 /\ made' \in Runs
           /\ runs' \in [Runs -> RunType]
           /\ \A q \in Runs \ {made'} : runs'[q] = runs[q]
           /\ runs'[made'].draft = task.draft /\ runs'[made'].after < made'
           /\ runs'[made'].status = "queued" /\ runs'[made'].certainty = "not_attempted"
           /\ jobs' \in [Runs -> JobType]
           /\ \A q \in Runs \ {made'} : jobs'[q] = jobs[q]
           /\ acked' = IF acknowledged THEN acked \cup {made'} ELSE acked
<1>1. made \in 0..MaxRuns /\ made + 1 \in Runs /\ RetryAfter \in 0..MaxRuns
      /\ RetryAfter < made + 1
  BY DeliveryAssumption DEF IInv, TypeOK, Runs, RetryAfter, LastFailed
<1>2. ~\E r \in 1..made : runs[r].draft = task.draft /\ runs[r].after = RetryAfter
  <2>1. \A r \in 1..made : r \in Runs /\ r <= made
    BY <1>1, DeliveryAssumption DEF Runs
  <2> QED
    BY <2>1, RetryIsNew
<1>3. /\ made' = made + 1
      /\ runs' = [runs EXCEPT ![made + 1] =
                     [draft |-> task.draft, after |-> RetryAfter,
                      status |-> "queued", certainty |-> "not_attempted"]]
      /\ jobs' = [jobs EXCEPT ![made + 1] = [NoJob EXCEPT !.status = "pending"]]
      /\ acked' = IF acknowledged THEN acked \cup {made + 1} ELSE acked
  BY <1>2 DEF QueueRun
<1>4. [draft |-> task.draft, after |-> RetryAfter, status |-> "queued",
       certainty |-> "not_attempted"] \in RunType
  BY <1>1 DEF RunType, RunStatuses, Certainties, Contents
<1>5. [NoJob EXCEPT !.status = "pending"] \in JobType
  <2>1. NoJob \in JobType
    BY DeliveryAssumption DEF NoJob, JobType
  <2> QED
    BY <2>1 DEF JobType
<1>6. /\ runs' \in [Runs -> RunType] /\ \A q \in Runs \ {made + 1} : runs'[q] = runs[q]
      /\ runs'[made + 1] = [draft |-> task.draft, after |-> RetryAfter,
                            status |-> "queued", certainty |-> "not_attempted"]
  BY <1>1, <1>3, <1>4 DEF IInv, TypeOK
<1>7. /\ jobs' \in [Runs -> JobType]
      /\ \A q \in Runs \ {made + 1} : jobs'[q] = jobs[q]
  BY <1>1, <1>3, <1>5 DEF IInv, TypeOK
<1> QED
  BY <1>1, <1>3, <1>6, <1>7

\* What both ways to approve come to.
LEMMA ApprovalKeeps ==
    ASSUME IInv, task' \in TaskType, task'.draft = task.draft,
           reviewed \subseteq reviewed', reviewed' \subseteq Drafts,
           Staged /\ task'.approved /\ task.draft # NoDraft => task.draft \in reviewed',
           UNCHANGED <<enabled, workerVars, taken, faults>>,
           \/ UNCHANGED <<queueVars, acked>>
           \/ /\ task.draft \in Drafts /\ made < MaxRuns
              /\ Staged => task.draft \in reviewed'
              /\ \E acknowledged \in BOOLEAN :
                    Approvable(acknowledged) /\ QueueRun(acknowledged)
    PROVE  IInv'
<1>1. \A v \in Workers, q \in Runs : Delivers(v, q)' <=> Delivers(v, q)
  BY DEF workerVars, Delivers
<1>2. AloneOnRun' /\ SwitchIsObeyed'
  BY <1>1 DEF workerVars, IInv, AloneOnRun, SwitchIsObeyed
<1>3. CASE UNCHANGED <<queueVars, acked>>
  <2>1. TypeOK' /\ RunsInOrder' /\ CountIsKnown' /\ RecordIsTruthful'
    BY <1>3 DEF queueVars, workerVars, IInv, TypeOK, RunsInOrder, CountIsKnown,
                RecordIsTruthful
  <2>2. DeliveredIsClaimed' /\ DraftIsOpen' /\ StagedTextWasReviewed'
        /\ GapAcknowledged'
    BY <1>1, <1>3 DEF queueVars, IInv, DeliveredIsClaimed, DraftIsOpen,
                      StagedTextWasReviewed, GapAcknowledged
  <2> QED
    BY <1>2, <2>1, <2>2 DEF IInv
<1>4. CASE /\ task.draft \in Drafts /\ made < MaxRuns
           /\ Staged => task.draft \in reviewed'
           /\ \E acknowledged \in BOOLEAN :
                 Approvable(acknowledged) /\ QueueRun(acknowledged)
  <2>1. PICK acknowledged \in BOOLEAN : Approvable(acknowledged) /\ QueueRun(acknowledged)
    BY <1>4
  <2>2. /\ made' = made + 1 /\ made' \in Runs
        /\ runs' \in [Runs -> RunType]
        /\ \A q \in Runs \ {made'} : runs'[q] = runs[q]
        /\ runs'[made'].draft = task.draft /\ runs'[made'].after < made'
        /\ runs'[made'].status = "queued" /\ runs'[made'].certainty = "not_attempted"
        /\ jobs' \in [Runs -> JobType]
        /\ \A q \in Runs \ {made'} : jobs'[q] = jobs[q]
        /\ acked' = IF acknowledged THEN acked \cup {made'} ELSE acked
    BY <1>4, <2>1, QueueRunMakes
  <2>3. made \in Nat /\ Runs \subseteq Nat
    BY DeliveryAssumption DEF IInv, TypeOK, Runs
  \* The run is new: nothing was taken for it and nobody delivers it.
  <2>4. runs[made'] = NoRun /\ taken[made'] = 0 /\ runs[made'].status = "absent"
    BY <2>2, <2>3 DEF IInv, RunsInOrder, NoRun
  <2>5. \A v \in Workers, q \in Runs : q = made' => ~Delivers(v, q)
    BY <2>4 DEF IInv, DeliveredIsClaimed
  <2>6. TypeOK'
    BY <2>2 DEF workerVars, IInv, TypeOK, Runs
  <2>7. RunsInOrder'
    <3>1. \A q \in Runs : q <= made' <=> q <= made \/ q = made'
      BY <2>2, <2>3
    <3>2. \A q \in Runs \ {made'} : q <= made' <=> q <= made
      BY <3>1
    <3>3. made' <= made'
      BY <2>2, <2>3
    <3>4. RunsInOrder /\ pc' = pc /\ work' = work
      BY DEF workerVars, IInv
    <3> QED
      BY <2>2, <3>1, <3>2, <3>3, <3>4 DEF RunsInOrder
  <2>8. DeliveredIsClaimed'
    BY <1>1, <2>2, <2>5 DEF IInv, DeliveredIsClaimed
  <2>9. CountIsKnown' /\ RecordIsTruthful'
    BY <2>2, <2>4 DEF workerVars, IInv, CountIsKnown, RecordIsTruthful
  <2>10. DraftIsOpen' /\ StagedTextWasReviewed'
    BY <1>4, <2>2 DEF IInv, DraftIsOpen, StagedTextWasReviewed
  <2>11. GapAcknowledged'
    <3> SUFFICES ASSUME NEW i \in Runs, i < made', i + 1 \notin acked'
                 PROVE  /\ runs'[i].status = "failed" /\ taken[i] = 0
                        /\ \A v \in Workers : ~Delivers(v, i)
      BY <1>1 DEF GapAcknowledged
    <3>1. CASE i < made
      BY <2>2, <2>3, <3>1 DEF IInv, GapAcknowledged
    <3>2. CASE i = made
      <4>1. made > 0 /\ made \in Runs /\ ~acknowledged /\ LastFailed
        BY <1>4, <2>1, <2>2, <2>3, <3>2, RetryIsNew DEF Runs
      <4>2. runs[made].status = "failed" /\ runs[made].certainty # "outcome_unknown"
        BY <2>1, <4>1 DEF Approvable, LastFailed
      <4>3. runs[made] \in RunType /\ runs[made].certainty = "not_attempted"
        BY <4>1, <4>2 DEF IInv, TypeOK, DeliveredIsClaimed, RunType, Certainties
      <4>4. taken[made] = 0 /\ \A v \in Workers : ~Delivers(v, made)
        BY <4>1, <4>2, <4>3 DEF IInv, RecordIsTruthful, DeliveredIsClaimed
      <4> QED
        BY <2>2, <2>3, <3>2, <4>2, <4>4
    <3> QED
      BY <2>2, <2>3, <3>1, <3>2
  <2> QED
    BY <1>2, <2>6, <2>7, <2>8, <2>9, <2>10, <2>11 DEF IInv
<1> QED
  BY <1>3, <1>4

LEMMA ApproveKeeps ==
    ASSUME IInv, NEW acknowledged \in BOOLEAN, Approve(acknowledged)
    PROVE  IInv'
<1>1. /\ task' \in TaskType /\ task'.draft = task.draft
      /\ task'.approved = task.approved /\ task.draft \in Contents
  BY DEF Approve, IInv, TypeOK, TaskType, TaskStatuses
<1>2. Staged /\ task.draft # NoDraft => task.approved /\ task.draft \in reviewed
  BY DEF Approve, IInv, DraftIsOpen
<1>3. \/ UNCHANGED <<queueVars, acked>>
      \/ /\ task.draft \in Drafts /\ made < MaxRuns
         /\ Staged => task.draft \in reviewed
         /\ Approvable(acknowledged) /\ QueueRun(acknowledged)
  BY <1>1, <1>2 DEF Approve, Contents
<1>4. reviewed' = reviewed /\ reviewed \subseteq Drafts
      /\ UNCHANGED <<enabled, workerVars, taken, faults>>
  BY DEF Approve, IInv, TypeOK
<1> QED
  BY <1>1, <1>2, <1>3, <1>4, ApprovalKeeps

LEMMA ApproveStagedKeeps ==
    ASSUME IInv, ApproveStaged
    PROVE  IInv'
<1>1. task' \in TaskType /\ task'.draft = task.draft /\ task.draft \in Contents
  BY DEF ApproveStaged, IInv, TypeOK, TaskType, TaskStatuses
<1>2. /\ reviewed \subseteq reviewed' /\ reviewed' \subseteq Drafts
      /\ task.draft # NoDraft => task.draft \in reviewed'
  BY <1>1 DEF ApproveStaged, IInv, TypeOK, Contents
<1>3. \/ UNCHANGED <<queueVars, acked>>
      \/ /\ task.draft \in Drafts /\ made < MaxRuns
         /\ Staged => task.draft \in reviewed'
         /\ Approvable(FALSE) /\ QueueRun(FALSE)
  BY <1>1, <1>2 DEF ApproveStaged, Contents
<1>4. UNCHANGED <<enabled, workerVars, taken, faults>>
  BY DEF ApproveStaged
<1> QED
  BY <1>1, <1>2, <1>3, <1>4, ApprovalKeeps

LEMMA MoveTaskKeeps ==
    ASSUME IInv, NEW to \in TaskStatuses, MoveTask(to)
    PROVE  IInv'
<1>1. /\ task' \in TaskType /\ task'.draft = task.draft
      /\ task'.approved = task.approved
  BY DEF MoveTask, IInv, TypeOK, TaskType
<1>2. /\ reviewed' = reviewed /\ task.draft \in Contents /\ reviewed \subseteq Drafts
      /\ UNCHANGED <<queueVars, acked, enabled, workerVars, taken, faults>>
  BY DEF MoveTask, historyVars, IInv, TypeOK, TaskType
<1>3. Staged /\ task'.approved /\ task.draft # NoDraft => task.draft \in reviewed'
  BY <1>1, <1>2 DEF IInv, DraftIsOpen
<1> QED
  BY <1>1, <1>2, <1>3, ApprovalKeeps

\* An edited draft was not reviewed, and the task no longer counts as approved.
LEMMA EditDraftKeeps ==
    ASSUME IInv, NEW d \in Drafts, EditDraft(d)
    PROVE  IInv'
<1>1. /\ task' \in TaskType /\ ~task'.approved /\ task.draft # NoDraft
      /\ UNCHANGED <<enabled, made, runs, jobs, pc, work, taken, acked, reviewed, faults>>
  BY DEF EditDraft, IInv, TypeOK, TaskType, Contents, queueVars, workerVars, historyVars
<1>2. DraftIsOpen'
  BY <1>1 DEF IInv, DraftIsOpen
<1>3. \A v \in Workers, q \in Runs : Delivers(v, q)' <=> Delivers(v, q)
  BY <1>1 DEF Delivers
<1>4. DeliveredIsClaimed' /\ AloneOnRun' /\ GapAcknowledged'
  BY <1>1, <1>3 DEF IInv, DeliveredIsClaimed, AloneOnRun, GapAcknowledged
<1> QED
  BY <1>1, <1>2, <1>4 DEF IInv, TypeOK, RunsInOrder, CountIsKnown, RecordIsTruthful,
                          SwitchIsObeyed, StagedTextWasReviewed

\* The switch is thrown only when no worker is past it.
LEMMA SwitchKeeps ==
    ASSUME IInv, SwitchChatActions
    PROVE  IInv'
<1>1. /\ SettingsFree /\ enabled' \in BOOLEAN
      /\ UNCHANGED <<task, made, runs, jobs, pc, work, taken, acked, reviewed, faults>>
  BY DEF SwitchChatActions, IInv, TypeOK, queueVars, workerVars, historyVars
<1>2. SwitchIsObeyed'
  BY <1>1 DEF SettingsFree, SwitchIsObeyed
<1>3. \A v \in Workers, q \in Runs : Delivers(v, q)' <=> Delivers(v, q)
  BY <1>1 DEF Delivers
<1>4. DeliveredIsClaimed' /\ AloneOnRun' /\ GapAcknowledged'
  BY <1>1, <1>3 DEF IInv, DeliveredIsClaimed, AloneOnRun, GapAcknowledged
<1> QED
  BY <1>1, <1>2, <1>4 DEF IInv, TypeOK, RunsInOrder, CountIsKnown, RecordIsTruthful,
                          DraftIsOpen, StagedTextWasReviewed

LEMMA StutterKeeps ==
    ASSUME IInv, UNCHANGED vars
    PROVE  IInv'
<1>1. UNCHANGED <<task, enabled, made, runs, jobs, pc, work, taken, acked, reviewed,
                  faults>>
  BY DEF vars, queueVars, workerVars, historyVars
<1>2. \A v \in Workers, q \in Runs : Delivers(v, q)' <=> Delivers(v, q)
  BY <1>1 DEF Delivers
<1>3. DeliveredIsClaimed' /\ AloneOnRun' /\ GapAcknowledged'
  BY <1>1, <1>2 DEF IInv, DeliveredIsClaimed, AloneOnRun, GapAcknowledged
<1> QED
  BY <1>1, <1>3 DEF IInv, TypeOK, RunsInOrder, CountIsKnown, RecordIsTruthful,
                    SwitchIsObeyed, DraftIsOpen, StagedTextWasReviewed

LEMMA NextIInv == IInv /\ [Next]_vars => IInv'
<1> SUFFICES ASSUME IInv, [Next]_vars PROVE IInv'
  OBVIOUS
<1>1. CASE \E w \in Workers : WorkerStep(w) \/ InfraFailure(w) \/ Crash(w)
  BY <1>1, CheckInterruptedKeeps, IgnoreKeeps, ClaimRunKeeps, RecordNoSendKeeps,
     RevalidateKeeps, CheckSettingsKeeps, ProviderTakesKeeps, HandlerReturnsKeeps,
     RecordOutcomeKeeps, FinishJobKeeps, InfraFailureKeeps, CrashKeeps,
     StartAttemptKeeps
  DEF WorkerStep, DeliveryStep
<1>2. CASE RequestStep
  BY <1>2, ApproveKeeps, ApproveStagedKeeps, MoveTaskKeeps, EditDraftKeeps, SwitchKeeps
  DEF RequestStep
<1> QED
  BY <1>1, <1>2, LeaseExpiresKeeps, StutterKeeps DEF Next

LEMMA Invariance == Spec => []IInv
BY InitIInv, NextIInv, PTL DEF Spec

------------------------------------------------------------------------------
(***************************************************************************)
(* The theorems.                                                           *)
(***************************************************************************)

\* Whatever happens, the task, its runs and its workers are in a state the code
\* knows.
THEOREM TypeCorrect == Spec => []TypeOK
BY Invariance, PTL DEF IInv

\* However often a job is retried, taken over or left running on an expired
\* lease, one approval sends one message at most.
THEOREM ApprovalSendsOnce == Spec => []OneMessagePerApproval
<1>1. IInv => OneMessagePerApproval
  BY DEF IInv, CountIsKnown, OneMessagePerApproval
<1> QED
  BY <1>1, Invariance, PTL

\* A run recorded as sent was sent, and one recorded as failed without an
\* attempt reached nobody.
THEOREM RecordNeverLies == Spec => []RecordIsTruthful
BY Invariance, PTL DEF IInv

\* No message is on its way while chat actions are off.
THEOREM SwitchAlwaysObeyed == Spec => []SwitchIsObeyed
BY Invariance, PTL DEF IInv

\* No text waits for delivery that an attorney's staged review did not approve.
THEOREM OnlyReviewedTextQueued == Spec => []StagedTextWasReviewed
BY Invariance, PTL DEF IInv

\* Two messages of one task have an acknowledgement between them.
THEOREM SecondMessageAcknowledged == Spec => []DuplicatesAcknowledged
<1>1. IInv => DuplicatesAcknowledged
  <2> SUFFICES ASSUME IInv, NEW i \in Runs, NEW j \in Runs,
                      i < j, taken[i] > 0, taken[j] > 0
               PROVE  \E k \in acked : i < k /\ k <= j
    BY DEF DuplicatesAcknowledged
  <2>1. made \in Nat /\ Runs \subseteq Nat /\ taken[i] # 0 /\ taken[j] # 0
    BY DeliveryAssumption DEF IInv, TypeOK, Runs
  <2>2. j <= made
    BY <2>1 DEF IInv, RunsInOrder
  <2>3. i + 1 \in acked
    BY <2>1, <2>2 DEF IInv, GapAcknowledged
  <2> QED
    BY <2>1, <2>3
<1> QED
  BY <1>1, Invariance, PTL

\* Approving a draft always leaves a run of its own.
THEOREM EveryApprovalRecorded == Spec => ApprovalIsRecorded
<1> DEFINE Recorded ==
             task.status = "review" /\ task'.status = "in_progress"
                /\ task.draft # NoDraft
             => made' = made + 1 /\ runs'[made'].draft = task.draft
<1>1. IInv /\ [Next]_vars => [Recorded]_vars
  <2> SUFFICES ASSUME IInv, [Next]_vars, task.status = "review",
                      task'.status = "in_progress", task.draft # NoDraft
               PROVE  made' = made + 1 /\ runs'[made'].draft = task.draft
    OBVIOUS
  <2>1. task \in TaskType /\ task.draft \in Drafts
    BY DEF IInv, TypeOK, TaskType, Contents
  <2>2. ASSUME NEW acknowledged \in BOOLEAN, made < MaxRuns,
               Approvable(acknowledged), QueueRun(acknowledged)
        PROVE  made' = made + 1 /\ runs'[made'].draft = task.draft
    BY <2>1, <2>2, QueueRunMakes
  <2>3. ASSUME NEW acknowledged \in BOOLEAN, Approve(acknowledged)
        PROVE  made' = made + 1 /\ runs'[made'].draft = task.draft
    BY <2>2, <2>3 DEF Approve
  <2>4. CASE ApproveStaged
    BY <2>2, <2>4 DEF ApproveStaged
  \* Nothing else takes a task from Review to In Progress.
  <2>5. ASSUME NEW to \in TaskStatuses PROVE ~MoveTask(to)
    BY <2>1 DEF MoveTask, TaskType
  <2>6. ASSUME NEW d \in Drafts PROVE ~EditDraft(d)
    BY <2>1 DEF EditDraft, TaskType
  <2>7. ASSUME NEW w \in Workers PROVE ~RecordOutcome(w)
    BY <2>1 DEF RecordOutcome, TaskType
  <2>8. task' # task
    OBVIOUS
  <2> QED
    BY <2>3, <2>4, <2>5, <2>6, <2>7, <2>8
    DEF Next, RequestStep, WorkerStep, DeliveryStep, vars, SwitchChatActions,
        CheckInterrupted, Ignore, ClaimRun, RecordNoSend, Revalidate, CheckSettings,
        ProviderTakes, HandlerReturns, FinishJob, InfraFailure, Crash, StartAttempt,
        LeaseExpires
<1> QED
  BY <1>1, Invariance, PTL DEF Spec, ApprovalIsRecorded
------------------------------------------------------------------------------
(***************************************************************************)
(* The delivery implements DeliveryContract.                               *)
(***************************************************************************)
wordBar == [r \in Runs |-> WordOn(r)]
ContractStep == [Contract!Next]_<<wordBar, taken, acked>>

\* The word on a run is its status, and for a failed one its certainty.
LEMMA Words ==
    ASSUME IInv, NEW r \in Runs
    PROVE  /\ WordOn(r) = "none" <=> runs[r].status = "absent"
           /\ WordOn(r) = "open" <=> runs[r].status \in {"queued", "sending"}
           /\ WordOn(r) = "sent" <=> runs[r].status = "sent"
           /\ WordOn(r) = "unsent" <=>
                 runs[r].status = "failed" /\ runs[r].certainty = "not_attempted"
           /\ WordOn(r) = "unknown" <=>
                 runs[r].status = "failed" /\ runs[r].certainty = "outcome_unknown"
           /\ WordOn(r) \in {"none", "open", "sent", "unsent", "unknown"}
<1>1. runs[r] \in RunType
  BY DEF IInv, TypeOK
<1>2. runs[r].status = "failed" =>
         runs[r].certainty \in {"not_attempted", "outcome_unknown"}
  BY <1>1 DEF IInv, DeliveredIsClaimed, RunType, Certainties
<1> QED
  BY <1>1, <1>2 DEF WordOn, RunType, RunStatuses

\* A run whose status and certainty stay keeps its word.
LEMMA SameWord ==
    ASSUME NEW r \in Runs, runs'[r] = runs[r]
    PROVE  WordOn(r)' = WordOn(r)
BY DEF WordOn

\* A step that changes one run's word does so as the contract has it, or shows
\* nothing.
LEMMA OneWordStep ==
    ASSUME NEW r \in Runs, \A q \in Runs \ {r} : runs'[q] = runs[q],
           UNCHANGED <<taken, acked>>,
           \/ WordOn(r)' = WordOn(r)
           \/ /\ WordOn(r) \in {"open", "unknown"}
              /\ WordOn(r)' = IF taken[r] = 1 THEN "sent" ELSE "unsent"
           \/ WordOn(r) = "open" /\ WordOn(r)' = "unknown"
    PROVE  ContractStep
<1>1. \A q \in Runs \ {r} : WordOn(q)' = WordOn(q)
  BY SameWord
<1>2. wordBar' = [wordBar EXCEPT ![r] = WordOn(r)']
  BY <1>1 DEF wordBar
<1>3. wordBar[r] = WordOn(r) /\ r \in Contract!Approvals
  BY DEF wordBar, Contract!Approvals, Runs
<1>4. CASE WordOn(r)' = WordOn(r)
  BY <1>1, <1>4 DEF ContractStep, wordBar
<1>5. CASE /\ WordOn(r) \in {"open", "unknown"}
           /\ WordOn(r)' = IF taken[r] = 1 THEN "sent" ELSE "unsent"
  <2>1. Contract!Settle(r)
    BY <1>2, <1>3, <1>5 DEF Contract!Settle, Contract!Undecided, wordBar
  <2> QED
    BY <1>3, <2>1 DEF ContractStep, Contract!Next
<1>6. CASE WordOn(r) = "open" /\ WordOn(r)' = "unknown"
  <2>1. Contract!LoseTrack(r)
    BY <1>2, <1>3, <1>6 DEF Contract!LoseTrack, wordBar
  <2> QED
    BY <1>3, <2>1 DEF ContractStep, Contract!Next
<1> QED
  BY <1>4, <1>5, <1>6

\* A run that a worker writes without any word of it changing.
LEMMA NoWordStep ==
    ASSUME UNCHANGED <<runs, taken, acked>>
    PROVE  ContractStep
BY DEF ContractStep, wordBar, WordOn

\* A takeover gives an interrupted delivery up as unknown.
LEMMA InterruptedStep ==
    ASSUME IInv, NEW w \in Workers, CheckInterrupted(w)
    PROVE  ContractStep
<1>0. PICK r \in Runs : r = work[w].run
  BY WorkerHasRun DEF CheckInterrupted
<1>1. UNCHANGED <<taken, acked>>
  BY DEF CheckInterrupted, historyVars
<1>2. CASE UNCHANGED runs
  BY <1>1, <1>2, NoWordStep
<1>3. CASE /\ runs[r].status = "sending"
           /\ runs' = [runs EXCEPT ![r].status = "failed",
                                   ![r].certainty = "outcome_unknown"]
  <2>1. /\ \A q \in Runs \ {r} : runs'[q] = runs[q]
        /\ runs'[r].status = "failed" /\ runs'[r].certainty = "outcome_unknown"
    BY <1>0, <1>3, RunWritten DEF IInv, RunStatuses, Certainties
  <2>2. WordOn(r) = "open" /\ WordOn(r)' = "unknown"
    BY <1>3, <2>1 DEF WordOn
  <2> QED
    BY <1>1, <2>1, <2>2, OneWordStep
<1> QED
  BY <1>0, <1>2, <1>3 DEF CheckInterrupted

\* A refusal before the claim says that a queued run sent nothing.
LEMMA NoSendStep ==
    ASSUME IInv, NEW w \in Workers, NEW authorized \in BOOLEAN,
           RecordNoSend(w, authorized)
    PROVE  ContractStep
<1>0. PICK r \in Runs : r = work[w].run
  BY WorkerHasRun DEF RecordNoSend
<1>1. UNCHANGED <<taken, acked>>
  BY DEF RecordNoSend, historyVars
<1>2. CASE UNCHANGED runs
  BY <1>1, <1>2, NoWordStep
<1>3. CASE /\ runs[r].status = "queued"
           /\ runs' = [runs EXCEPT ![r].status = "failed",
                                   ![r].certainty = "not_attempted"]
  <2>1. /\ \A q \in Runs \ {r} : runs'[q] = runs[q]
        /\ runs'[r].status = "failed" /\ runs'[r].certainty = "not_attempted"
    BY <1>0, <1>3, RunWritten DEF IInv, RunStatuses, Certainties
  <2>2. taken[r] = 0
    BY <1>1, <1>3 DEF IInv, CountIsKnown
  <2>3. WordOn(r) = "open" /\ WordOn(r)' = "unsent"
    BY <1>3, <2>1 DEF WordOn
  <2> QED
    BY <1>1, <2>1, <2>2, <2>3, OneWordStep
<1> QED
  BY <1>0, <1>2, <1>3 DEF RecordNoSend

\* A claimed run is as open as a queued one.
LEMMA ClaimStep ==
    ASSUME IInv, NEW w \in Workers, ClaimRun(w)
    PROVE  ContractStep
<1>0. PICK r \in Runs : r = work[w].run
  BY WorkerHasRun DEF ClaimRun
<1>1. UNCHANGED <<taken, acked>>
  BY DEF ClaimRun, historyVars
<1>2. CASE UNCHANGED runs
  BY <1>1, <1>2, NoWordStep
<1>3. CASE /\ runs[r].status = "queued"
           /\ runs' = [runs EXCEPT ![r].status = "sending",
                                   ![r].certainty = "not_attempted"]
  <2>1. /\ \A q \in Runs \ {r} : runs'[q] = runs[q]
        /\ runs'[r].status = "sending"
    BY <1>0, <1>3, RunWritten DEF IInv, RunStatuses, Certainties
  <2>2. WordOn(r) = "open" /\ WordOn(r)' = "open"
    BY <1>3, <2>1 DEF WordOn
  <2> QED
    BY <1>1, <2>1, <2>2, OneWordStep
<1> QED
  BY <1>0, <1>2, <1>3 DEF ClaimRun

\* A refusal after the claim leaves the word to the certainty that is there.
LEMMA RefusalStep ==
    ASSUME IInv, NEW w \in Workers, pc[w] \in {"revalidate", "settings"}, Refuse(w),
           UNCHANGED historyVars
    PROVE  ContractStep
<1>0. PICK r \in Runs : r = work[w].run
  BY WorkerHasRun
<1>1. taken[r] = 0 /\ Delivers(w, r) /\ UNCHANGED <<taken, acked>>
  BY <1>0 DEF historyVars, IInv, CountIsKnown, Delivers
<1>2. /\ \A q \in Runs \ {r} : runs'[q] = runs[q]
      /\ runs'[r].status = "failed" /\ runs'[r].certainty = runs[r].certainty
  BY <1>0, RunRefused DEF IInv
<1>3. \/ runs[r].status = "sending" /\ runs[r].certainty = "not_attempted"
      \/ runs[r].status = "failed" /\ runs[r].certainty = "outcome_unknown"
  BY <1>1 DEF IInv, DeliveredIsClaimed
<1>4. \/ WordOn(r)' = WordOn(r)
      \/ WordOn(r) = "open" /\ WordOn(r)' = "unsent"
  BY <1>2, <1>3 DEF WordOn
<1> QED
  BY <1>1, <1>2, <1>4, OneWordStep

\* The message leaves while the run is open, or was given up under its worker.
LEMMA SendStep ==
    ASSUME IInv, NEW w \in Workers, ProviderTakes(w)
    PROVE  ContractStep
<1>0. PICK r \in Runs : r = work[w].run
  BY WorkerHasRun DEF ProviderTakes
<1>1. /\ Delivers(w, r) /\ taken[r] = 0
      /\ UNCHANGED <<runs, acked>>
  BY <1>0 DEF ProviderTakes, queueVars, IInv, CountIsKnown, Delivers
<1>2. taken' = [taken EXCEPT ![r] = 1]
  BY <1>0, <1>1 DEF ProviderTakes, IInv, TypeOK
<1>3. WordOn(r) \in {"open", "unknown"}
  BY <1>1, Words DEF IInv, DeliveredIsClaimed
<1>4. wordBar' = wordBar /\ wordBar[r] = WordOn(r) /\ r \in Contract!Approvals
  BY <1>1 DEF wordBar, WordOn, Contract!Approvals, Runs
<1>5. Contract!Send(r)
  BY <1>1, <1>2, <1>3, <1>4 DEF Contract!Send, Contract!Undecided, wordBar
<1> QED
  BY <1>4, <1>5 DEF ContractStep, Contract!Next

\* The worker that delivered a run has the last word on it.
LEMMA OutcomeStep ==
    ASSUME IInv, NEW w \in Workers, RecordOutcome(w)
    PROVE  ContractStep
<1>0. PICK r \in Runs : r = work[w].run
  BY WorkerHasRun DEF RecordOutcome
<1> DEFINE outcome == work[w].outcome
           end == IF outcome = "confirmed_sent" THEN "sent" ELSE "failed"
<1>1. /\ Delivers(w, r) /\ outcome \in Certainties
      /\ outcome = "confirmed_sent" => taken[r] = 1
      /\ outcome = "not_attempted" => taken[r] = 0
      /\ UNCHANGED <<taken, acked>>
  BY <1>0
  DEF RecordOutcome, historyVars, IInv, CountIsKnown, TypeOK, WorkType, Delivers
<1>2. /\ \A q \in Runs \ {r} : runs'[q] = runs[q]
      /\ runs'[r].status = end /\ runs'[r].certainty = outcome
  <2>1. runs' = [runs EXCEPT ![r].status = end, ![r].certainty = outcome]
    BY <1>0 DEF RecordOutcome
  <2>2. end \in RunStatuses /\ outcome \in Certainties /\ TypeOK
    BY <1>1 DEF IInv, RunStatuses
  <2> HIDE DEF end, outcome
  <2> QED
    BY <1>1, <2>1, <2>2 DEF TypeOK, RunType
<1>3. WordOn(r) \in {"open", "unknown"}
  BY <1>1, Words DEF IInv, DeliveredIsClaimed
<1>4. WordOn(r)' = CASE outcome = "confirmed_sent" -> "sent"
                     [] outcome = "not_attempted" -> "unsent"
                     [] outcome = "outcome_unknown" -> "unknown"
  BY <1>1, <1>2 DEF WordOn, Certainties
<1> QED
  BY <1>1, <1>2, <1>3, <1>4, OneWordStep DEF Certainties

\* An approval is a new run after runs that failed, and is acknowledged where the
\* latest of them is unknown.
LEMMA ApprovalStep ==
    ASSUME IInv, task.draft \in Drafts, made < MaxRuns, UNCHANGED taken,
           NEW acknowledged \in BOOLEAN, Approvable(acknowledged),
           QueueRun(acknowledged)
    PROVE  ContractStep
<1>0. PICK r \in Runs : r = made + 1
  BY QueueRunMakes
<1>1. /\ made' = r /\ runs'[r].status = "queued"
      /\ \A q \in Runs \ {r} : runs'[q] = runs[q]
      /\ acked' = IF acknowledged THEN acked \cup {r} ELSE acked
  BY <1>0, QueueRunMakes
<1>2. made \in Nat /\ MaxRuns \in Nat /\ Runs = 1..MaxRuns /\ r > made
  BY <1>0, DeliveryAssumption DEF IInv, TypeOK, Runs
<1>3. WordOn(r) = "none" /\ WordOn(r)' = "open"
  <2>1. runs[r].status = "absent"
    BY <1>1, <1>2 DEF IInv, RunsInOrder, NoRun
  <2> QED
    BY <1>1, <2>1 DEF WordOn
<1>4. wordBar' = [wordBar EXCEPT ![r] = "open"]
  <2>1. \A q \in Runs \ {r} : WordOn(q)' = WordOn(q)
    BY <1>1, SameWord
  <2> QED
    BY <1>3, <2>1 DEF wordBar
<1>5. ASSUME NEW q \in Runs, q < r
      PROVE  WordOn(q) \in {"unsent", "unknown"}
  <2>1. q \in 1..made /\ q <= made
    BY <1>0, <1>2, <1>5
  <2>2. runs[q].status \notin {"absent", "queued", "sending"}
    BY <2>1 DEF IInv, RunsInOrder, Approvable, Active
  <2>3. runs[q].status # "sent"
    BY DeliveryAssumption DEF IInv, DraftIsOpen
  <2> QED
    BY <2>2, <2>3, Words
<1>6. ASSUME r > 1, WordOn(r - 1) = "unknown"
      PROVE  r \in acked'
  <2>1. r - 1 = made /\ made \in Runs /\ made > 0
    BY <1>0, <1>2, <1>6
  <2>2. acknowledged
    BY <1>6, <2>1, Words DEF Approvable, LastFailed
  <2> QED
    BY <1>1, <2>2
<1>7. /\ \A q \in Contract!Approvals : wordBar[q] = WordOn(q)
      /\ Contract!Approvals = Runs
  BY DEF wordBar, Contract!Approvals, Runs
<1>8. Contract!Approve(r)
  <2>1. acked' \in {acked, acked \cup {r}}
    BY <1>1
  <2>2. r > 1 => r - 1 \in Runs
    BY <1>0, <1>2
  <2> QED
    BY <1>1, <1>3, <1>4, <1>5, <1>6, <1>7, <2>1, <2>2
    DEF Contract!Approve, Contract!Approvals, Runs, wordBar
<1> QED
  BY <1>7, <1>8 DEF ContractStep, Contract!Next

LEMMA NextContractStep == IInv /\ [Next]_vars => ContractStep
<1> SUFFICES ASSUME IInv, [Next]_vars PROVE ContractStep
  OBVIOUS
<1>1. ASSUME NEW w \in Workers, NEW authorized \in BOOLEAN,
             Revalidate(w, authorized) \/ CheckSettings(w)
      PROVE  ContractStep
  <2>1. /\ pc[w] \in {"revalidate", "settings"} /\ UNCHANGED historyVars
        /\ UNCHANGED runs \/ Refuse(w)
    BY <1>1 DEF Revalidate, CheckSettings
  <2> QED
    BY <2>1, RefusalStep, NoWordStep DEF historyVars
<1>2. ASSUME NEW w \in Workers, DeliveryStep(w)
      PROVE  ContractStep
  <2>1. CASE Ignore(w) \/ HandlerReturns(w) \/ FinishJob(w)
    BY <2>1, NoWordStep
    DEF Ignore, HandlerReturns, FinishJob, queueVars, historyVars
  <2> QED
    BY <1>1, <1>2, <2>1, InterruptedStep, NoSendStep, ClaimStep, SendStep, OutcomeStep
    DEF DeliveryStep
<1>3. ASSUME NEW w \in Workers, WorkerStep(w) \/ InfraFailure(w) \/ Crash(w)
      PROVE  ContractStep
  BY <1>2, <1>3, NoWordStep
  DEF WorkerStep, StartAttempt, InfraFailure, Crash, queueVars, historyVars
<1>4. ASSUME NEW acknowledged \in BOOLEAN,
             \/ UNCHANGED <<queueVars, acked>>
             \/ /\ task.draft # NoDraft /\ made < MaxRuns
                /\ Approvable(acknowledged) /\ QueueRun(acknowledged),
             UNCHANGED taken
      PROVE  ContractStep
  <2>1. task.draft # NoDraft => task.draft \in Drafts
    BY DEF IInv, TypeOK, TaskType, Contents
  <2> QED
    BY <1>4, <2>1, ApprovalStep, NoWordStep DEF queueVars
<1>5. CASE RequestStep
  <2>1. ASSUME NEW acknowledged \in BOOLEAN, Approve(acknowledged)
        PROVE  ContractStep
    BY <1>4, <2>1 DEF Approve
  <2>2. CASE ApproveStaged
    BY <1>4, <2>2 DEF ApproveStaged
  <2>3. CASE UNCHANGED <<queueVars, historyVars>>
    BY <2>3, NoWordStep DEF queueVars, historyVars
  <2> QED
    BY <1>5, <2>1, <2>2, <2>3 DEF RequestStep, MoveTask, EditDraft, SwitchChatActions
<1>6. CASE UNCHANGED vars \/ \E r \in Runs : LeaseExpires(r)
  BY <1>6, NoWordStep DEF vars, LeaseExpires, queueVars, historyVars
<1> QED
  BY <1>3, <1>5, <1>6 DEF Next

LEMMA ContractInit == Init => Contract!Init
BY DEF Init, Contract!Init, Contract!Approvals, Runs, WordOn, NoRun

\* Whatever is retried, taken over or still running on an expired lease, the
\* delivery of a task's approvals is what DeliveryContract says: the word of a
\* settled run stands, and nobody approves over an unknown one unasked.
THEOREM DeliveryKeepsContract == Spec => WordIsKept
<1>1. ContractStep => [Contract!Next]_<<wordBar, taken, acked>>
  BY DEF ContractStep
<1> QED
  BY ContractInit, Invariance, NextContractStep, PTL
  DEF Spec, WordIsKept, Contract!Spec, ContractStep, wordBar

================================================================================
