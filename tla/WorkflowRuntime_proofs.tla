------------------------- MODULE WorkflowRuntime_proofs -------------------------
(***************************************************************************)
(* Theorems about WorkflowRuntime, for plans of any length, any number of  *)
(* workers, jobs, attempts and faults.                                     *)
(*                                                                         *)
(* Typed says that the rows have their types and that nobody acts beyond   *)
(* the plan; ClaimsApart that no two workers act under the same claim.     *)
(* From these StepEffects shows that a step does one of nine things to   *)
(* the run (its rows and uploads), and the safety properties are proved    *)
(* from those effects, not action by action.                               *)
(***************************************************************************)
EXTENDS WorkflowRuntime, TLAPS

(***************************************************************************)
(* Types.                                                                  *)
(***************************************************************************)
Pauses      == {"awaiting_input", "awaiting_review", "blocked",
                "reconciliation_required"}
Codes       == {"none", "resumable", "new_plan"}
RunRow      == [kinds : {plan.kinds : plan \in Plans},
                status : Active \cup Final \cup Pauses,
                next : 1..(Length + 1), code : Codes]
StepStatuses == {"pending", "executing", "awaiting_input", "awaiting_review",
                 "blocked", "uncertain", "completed"}
ClaimType   == [job : 0..MaxJobs, attempts : 0..MaxAttempts]
StepRow     == [status : StepStatuses, attempt : ClaimType, input : BOOLEAN,
                result : BOOLEAN, artifact : BOOLEAN, operation : BOOLEAN]
JobRow      == [status : {"absent", "pending", "running", "completed", "failed"},
                attempts : 0..MaxAttempts]

\* A worker at work has a claim, one that uploads has a step, and a paused run
\* is paused at a step.
Grounded ==
    /\ \A w \in Workers :
        /\ pc[w] # "idle" => held[w].job \in Jobs /\ held[w].attempts >= 1
        /\ pc[w] = "uploading" => Current \in Steps
    /\ run.status \in Pauses => Current \in Steps

Typed == TypeOK /\ Grounded

(***************************************************************************)
(* The inductive invariant.                                                *)
(***************************************************************************)
\* A claim is at most as new as its job's last one, and nobody shares it.
ClaimsApart ==
    /\ \A w \in Workers : pc[w] # "idle" =>
          held[w].attempts <= job[held[w].job].attempts
    /\ \A v, w \in Workers :
          pc[v] # "idle" /\ pc[w] # "idle" /\ held[v] = held[w] => v = w

\* Where the run stands: paused at a step, ended by a person, or at the end.
RunStands ==
    /\ run.status # "failed"
    /\ run.status = "completed" => run.next = Length + 1

\* Steps before the present one are done, on evidence; later ones untouched.
Untouched(s) == /\ step[s].attempt = NoClaim /\ ~step[s].artifact
                /\ ~step[s].result /\ ~step[s].operation
Evidence(s)  == \/ Kinds[s] = "read"
                \/ review[s] \in {"approved", "revised", "sent"}
PlanInOrder ==
    \A s \in Steps :
        /\ s > run.next => Untouched(s)
        /\ s < run.next => /\ step[s].status = "completed" /\ step[s].result
                           /\ Evidence(s)
        /\ step[s].status = "completed" => s < run.next

\* An attempt is at the present step, a document it has identified and has no
\* result of yet; and a document that is stored has been identified.
AttemptInHand ==
    \A s \in Steps :
        /\ step[s].attempt # NoClaim => /\ s = run.next
                                        /\ step[s].artifact /\ ~step[s].result
        /\ step[s].artifact => step[s].input /\ Kinds[s] = "draft"
        /\ store[s] # "none" => step[s].artifact /\ step[s].operation

\* What was sent to the provider was fenced before, and once.
Traced ==
    \A s \in Steps : /\ uploads[s] \in {0, 1}
                     /\ uploads[s] = 1 => store[s] # "none"

\* The worker that fenced an upload and is still the run's has not begun it;
\* the one that waits for the provider is the run's, and fenced it.
UploaderOwns ==
    \A w \in Workers :
        /\ pc[w] = "fenced" /\ StillOurs(w) =>
              store[Current] = "writing" /\ uploads[Current] = 0
        /\ pc[w] = "uploading" => StillOurs(w) /\ store[Current] = "writing"

IInv == /\ Typed /\ ClaimsApart /\ RunStands /\ PlanInOrder /\ AttemptInHand
        /\ Traced /\ UncertainWriteHoldsTheRun /\ UploaderOwns

(***************************************************************************)
(* What the operators of the model write.                                  *)
(***************************************************************************)
\* No claim is one of no job, so a claim of a job is never mistaken for it.
LEMMA ClaimFacts ==
    /\ NoClaim \in ClaimType /\ NoClaim.job = 0 /\ Length \in Nat
    /\ MaxAttempts \in Nat \ {0} /\ MaxJobs \in Nat \ {0} /\ MaxFaults \in Nat
    /\ Steps \subseteq 1..(Length + 1)
    /\ \A s \in Steps : s \in Nat /\ s <= Length /\ s >= 1
BY PlanAssumption, BoundsAssumption DEF NoClaim, ClaimType, Steps

\* A pause writes the run's status and code, and the row of the present step.
LEMMA PauseWrites ==
    ASSUME TypeOK, Current \in Steps, NEW paused \in Pauses, NEW code \in Codes,
           NEW row \in StepRow, Pause(paused, code, row)
    PROVE  /\ run' \in RunRow /\ run'.kinds = run.kinds /\ run'.next = run.next
           /\ run'.status = paused
           /\ step' \in [Steps -> StepRow]
           /\ \A s \in Steps : s # Current => step'[s] = step[s]
           /\ step'[Current].attempt = NoClaim
           /\ step'[Current].status # "completed"
           /\ step'[Current].input = row.input
           /\ step'[Current].result = row.result
           /\ step'[Current].artifact = row.artifact
           /\ step'[Current].operation = row.operation
<1> DEFINE new == [row EXCEPT !.status = StepStatus(paused), !.attempt = NoClaim]
<1>1. run \in RunRow /\ step \in [Steps -> StepRow]
  BY DEF TypeOK, RunRow, StepRow, StepStatuses, ClaimType, Pauses, Codes
<1>2. StepStatus(paused) \in StepStatuses /\ StepStatus(paused) # "completed"
  BY DEF StepStatus, StepStatuses, Pauses
<1>3. /\ new \in StepRow /\ new.attempt = NoClaim
      /\ new.status = StepStatus(paused)
      /\ new.input = row.input /\ new.result = row.result
      /\ new.artifact = row.artifact /\ new.operation = row.operation
  BY <1>2, ClaimFacts DEF StepRow
<1>4. step' = [step EXCEPT ![Current] = new]
  BY DEF Pause
<1>5. /\ step' \in [Steps -> StepRow] /\ step'[Current] = new
      /\ \A s \in Steps : s # Current => step'[s] = step[s]
  BY <1>1, <1>3, <1>4
<1>6. PICK c \in Codes : run' = [run EXCEPT !.status = paused, !.code = c]
  <2>1. "none" \in Codes
    BY DEF Codes
  <2> QED
    BY <2>1 DEF Pause
<1>7. /\ run' \in RunRow /\ run'.kinds = run.kinds /\ run'.next = run.next
      /\ run'.status = paused
  BY <1>1, <1>6 DEF RunRow
<1> QED
  BY <1>2, <1>3, <1>5, <1>7

\* The end of the retries pauses the run, or finds it ended or at its end.
LEMMA BlockExhaustedWrites ==
    ASSUME BlockExhausted
    PROVE  \/ run.status \in Final /\ UNCHANGED <<run, step>>
           \/ /\ run.status \notin Final /\ AtEnd
              /\ run' = [run EXCEPT !.status = "completed"] /\ UNCHANGED step
           \/ /\ run.status \notin Final /\ ~AtEnd
              /\ \E paused \in {"blocked", "reconciliation_required"} :
                    /\ Pause(paused, "resumable", step[Current])
                    /\ step[Current].operation /\ store[Current] \in Uncertain
                       => paused = "reconciliation_required"
BY DEF BlockExhausted

\* A refusal pauses the run, for reconciliation when the operation it knows of
\* is uncertain.
LEMMA RefuseWrites ==
    ASSUME TypeOK, Current \in Steps, NEW code \in Codes, Refuse(code)
    PROVE  /\ UNCHANGED store
           /\ \E paused \in {"blocked", "reconciliation_required"}, row \in StepRow :
                 /\ Pause(paused, code, row)
                 /\ step[Current].artifact /\ store[Current] \in Uncertain
                    => paused = "reconciliation_required"
                 /\ row.input = step[Current].input
                 /\ row.result = step[Current].result
                 /\ row.artifact = step[Current].artifact
                 /\ step[Current].operation => row.operation
                 /\ row.operation => step[Current].operation \/ row.artifact
<1> DEFINE known == step[Current].artifact /\ store[Current] # "none"
           row == [step[Current] EXCEPT !.operation = @ \/ known]
           paused == IF known /\ store[Current] \in Uncertain
                     THEN "reconciliation_required" ELSE "blocked"
<1>1. step[Current] \in StepRow
  BY DEF TypeOK, StepRow, StepStatuses, ClaimType
<1>2. /\ row \in StepRow /\ row.input = step[Current].input
      /\ row.result = step[Current].result
      /\ row.artifact = step[Current].artifact
      /\ row.operation = (step[Current].operation \/ known)
  <2>1. (step[Current].operation \/ known) \in BOOLEAN
    OBVIOUS
  <2> HIDE DEF known
  <2> QED
    BY <1>1, <2>1 DEF StepRow
<1>3. Pause(paused, code, row) /\ UNCHANGED store
  BY DEF Refuse
<1>4. /\ paused \in {"blocked", "reconciliation_required"}
      /\ step[Current].artifact /\ store[Current] \in Uncertain
         => paused = "reconciliation_required"
  BY DEF Uncertain
<1>5. row.operation => step[Current].operation \/ row.artifact
  BY <1>2
<1>6. step[Current].operation => row.operation
  BY <1>2
<1> HIDE DEF row, paused, known
<1> QED
  BY <1>2, <1>3, <1>4, <1>5, <1>6

\* Going on writes the next step's number, and completes the present one.
LEMMA AdvanceWrites ==
    ASSUME TypeOK, Current \in Steps, NEW row \in StepRow, Advance(row)
    PROVE  /\ run' \in RunRow /\ run'.kinds = run.kinds
           /\ run'.next = run.next + 1 /\ run'.status = run.status
           /\ step' \in [Steps -> StepRow]
           /\ \A s \in Steps : s # Current => step'[s] = step[s]
           /\ step'[Current].attempt = row.attempt
           /\ step'[Current].status = "completed"
           /\ step'[Current].input = row.input
           /\ step'[Current].result = row.result
           /\ step'[Current].artifact = row.artifact
           /\ step'[Current].operation = row.operation
<1> DEFINE new == [row EXCEPT !.status = "completed"]
<1>1. run \in RunRow /\ step \in [Steps -> StepRow]
  BY DEF TypeOK, RunRow, StepRow, StepStatuses, ClaimType, Pauses, Codes
<1>2. /\ new \in StepRow /\ new.attempt = row.attempt
      /\ new.status = "completed"
      /\ new.input = row.input /\ new.result = row.result
      /\ new.artifact = row.artifact /\ new.operation = row.operation
  BY DEF StepRow, StepStatuses
<1>3. /\ step' \in [Steps -> StepRow] /\ step'[Current] = new
      /\ \A s \in Steps : s # Current => step'[s] = step[s]
  BY <1>1, <1>2 DEF Advance
<1>4. /\ run' \in RunRow /\ run'.kinds = run.kinds
      /\ run'.next = run.next + 1 /\ run'.status = run.status
  BY <1>1, ClaimFacts DEF RunRow, Advance, Current, Steps
<1> QED
  BY <1>2, <1>3, <1>4

(***************************************************************************)
(* Types.                                                                  *)
(***************************************************************************)
\* The types by name.
Types ==
    /\ run \in RunRow /\ step \in [Steps -> StepRow]
    /\ store \in [Steps -> Uncertain \cup {"none", "linked"}]
    /\ uploads \in [Steps -> Nat] /\ landed \subseteq Steps
    /\ review \in [Steps -> {"none", "open", "approved", "changed",
                     "revised", "queued", "sent", "unknown", "failed"}]
    /\ job \in [Jobs -> JobRow]
    /\ pc \in [Workers -> {"idle", "begin", "identified", "fenced",
                       "uploading", "accepted", "returned", "raised"}]
    /\ held \in [Workers -> ClaimType] /\ faults \in 0..MaxFaults

LEMMA TypeNames == (TypeOK <=> Types) /\ (TypeOK' <=> Types')
BY DEF TypeOK, Types, RunRow, StepRow, StepStatuses, ClaimType, JobRow, Pauses,
       Codes

LEMMA InitTyped == Init => Typed
<1> SUFFICES ASSUME Init PROVE Typed
  OBVIOUS
<1> USE ClaimFacts
<1>1. PICK plan \in Plans :
        /\ run = [kinds |-> plan.kinds, status |-> "queued", next |-> 1,
                  code |-> "none"]
        /\ step = [s \in Steps |-> [status |-> "pending", attempt |-> NoClaim,
                     input |-> s \notin plan.asks, result |-> FALSE,
                     artifact |-> FALSE, operation |-> FALSE]]
  BY DEF Init
<1>2. run \in RunRow
  BY <1>1 DEF RunRow, Active, Codes
<1>3. step \in [Steps -> StepRow]
  <2>1. \A s \in Steps : (s \notin plan.asks) \in BOOLEAN
    OBVIOUS
  <2>2. \A s \in Steps : step[s] \in StepRow
    BY <1>1, <2>1 DEF StepRow, StepStatuses
  <2> QED
    BY <1>1, <2>2
<1>4. TypeOK
  <2>1. job \in [Jobs -> JobRow]
    BY DEF Init, JobRow
  <2> QED
    BY <1>2, <1>3, <2>1, TypeNames DEF Types, Init, Uncertain
<1>5. Grounded
  BY <1>1 DEF Init, Grounded, Pauses
<1> QED
  BY <1>4, <1>5 DEF Typed

\* A worker that only moves on keeps everybody grounded.
LEMMA GotoTyped ==
    ASSUME Typed, NEW w \in Workers, pc[w] # "idle",
           NEW at \in {"identified", "fenced", "accepted", "returned", "raised"},
           Goto(w, at)
    PROVE  /\ pc' \in [Workers -> {"idle", "begin", "identified", "fenced",
                                  "uploading", "accepted", "returned", "raised"}]
           /\ held' \in [Workers -> ClaimType] /\ faults' \in 0..MaxFaults
           /\ \A v \in Workers : pc'[v] # "idle" =>
                 held'[v].job \in Jobs /\ held'[v].attempts >= 1
           /\ \A v \in Workers : pc'[v] = "uploading" => pc[v] = "uploading" /\ v # w
BY TypeNames DEF Types, Typed, Grounded, Goto

\* Nobody uploads while a row of the run is locked by somebody else.
LEMMA UnlockedFacts ==
    ASSUME NEW w \in Workers
    PROVE  /\ Begin(w) => Unlocked /\ pc[w] = "begin" /\ Owns(w)
           /\ \A at : Resumed(w, at) => Unlocked /\ pc[w] = at /\ Owns(w)
           /\ Unlocked => \A v \in Workers : pc[v] # "uploading"
BY DEF Begin, Resumed, Unlocked

\* A turn that pauses the run and returns.
LEMMA PausedTyped ==
    ASSUME Typed, Current \in Steps, NEW w \in Workers, pc[w] # "idle",
           NEW paused \in Pauses, NEW code \in Codes, NEW row \in StepRow,
           Pause(paused, code, row), Goto(w, "returned"),
           NEW put \in Uncertain \cup {"none", "linked"},
           store' \in {store, [store EXCEPT ![Current] = put]},
           review' \in {review, [review EXCEPT ![Current] = "open"]},
           landed' \in {landed, landed \cup {Current}}, UNCHANGED <<uploads, job>>
    PROVE  Typed'
<1>1. TypeOK
  BY DEF Typed
<1>2. /\ run' \in RunRow /\ run'.next = run.next /\ step' \in [Steps -> StepRow]
  BY <1>1, PauseWrites
<1>3. Current' = Current
  BY <1>2 DEF Current
<1>4. TypeOK'
  BY <1>1, <1>2, TypeNames, GotoTyped DEF Types
<1>5. Grounded'
  BY <1>3, GotoTyped DEF Grounded
<1> QED
  BY <1>4, <1>5 DEF Typed

\* A refusal of the present step, in a worker's turn.
LEMMA RefusedTyped ==
    ASSUME Typed, Current \in Steps, NEW w \in Workers, pc[w] # "idle",
           NEW code \in Codes, Refuse(code), Goto(w, "returned"),
           UNCHANGED <<provider, review, job>>
    PROVE  Typed'
<1>1. PICK paused \in {"blocked", "reconciliation_required"}, row \in StepRow :
        Pause(paused, code, row) /\ UNCHANGED store
  BY RefuseWrites DEF Typed
<1> QED
  BY <1>1, PausedTyped DEF Pauses, provider

\* What a turn of the loop does up to its first commit keeps the types.
LEMMA BeginTyped ==
    ASSUME Typed, NEW w \in Workers,
           \/ NothingToDo(w) \/ Complete(w) \/ Refused(w) \/ Reviewed(w)
           \/ MissingInput(w) \/ Read(w) \/ Propose(w) \/ Identify(w)
    PROVE  Typed'
<1> USE DEF runVars, provider, work
<1>0. /\ Begin(w) /\ pc[w] = "begin" /\ pc[w] # "idle"
      /\ \A v \in Workers : pc[v] # "uploading"
  BY UnlockedFacts
     DEF NothingToDo, Complete, Refused, Reviewed, MissingInput, Read, Propose,
         Identify, Executes
<1>T. TypeOK /\ Grounded
  BY DEF Typed
<1>1. CASE NothingToDo(w)
  <2>1. TypeOK'
    BY <1>0, <1>1, <1>T, GotoTyped, TypeNames DEF Types, NothingToDo
  <2>2. Grounded'
    BY <1>0, <1>1, <1>T, GotoTyped DEF NothingToDo, Grounded, Current
  <2> QED
    BY <2>1, <2>2 DEF Typed
<1>2. CASE Complete(w)
  <2>1. run' \in RunRow /\ run'.status = "completed"
    BY <1>2, <1>T, TypeNames DEF Types, Complete, RunRow, Final
  <2>2. TypeOK'
    BY <1>0, <1>2, <2>1, <1>T, GotoTyped, TypeNames DEF Types, Complete
  <2>3. Grounded'
    BY <1>0, <1>2, <2>1, GotoTyped DEF Complete, Grounded, Pauses
  <2> QED
    BY <2>2, <2>3 DEF Typed
<1>3. CASE Refused(w)
  <2>1. PICK code \in {"resumable", "new_plan"} : Refuse(code)
    BY <1>3 DEF Refused
  <2> QED
    BY <1>0, <1>3, <2>1, RefusedTyped DEF Refused, Codes, AtEnd, Current
<1>4. CASE Reviewed(w)
  <2>1. Current \in Steps /\ step[Current] \in StepRow
    BY <1>4, <1>T, TypeNames DEF Types, Reviewed, AtEnd, Current
  <2>2. CASE ReviewOutcome(Current) = "completed"
    <3>1. Advance(step[Current]) /\ UNCHANGED <<store, provider, review, work>>
      BY <1>4, <2>2 DEF Reviewed
    <3>2. /\ run' \in RunRow /\ step' \in [Steps -> StepRow]
          /\ run'.status = run.status
      BY <3>1, <2>1, <1>T, AdvanceWrites
    <3>3. run.status \notin Pauses
      BY <1>4 DEF Reviewed, Active, Pauses
    <3> QED
      BY <3>1, <3>2, <3>3, <1>T, <1>0, TypeNames DEF Types, Typed, Grounded
  <2>3. CASE ReviewOutcome(Current) # "completed"
    <3>1. Pause(ReviewOutcome(Current), "new_plan", step[Current])
          /\ Goto(w, "returned") /\ UNCHANGED <<store, provider, review, job>>
      BY <1>4, <2>3 DEF Reviewed, Goto
    <3>2. ReviewOutcome(Current) \in Pauses
      BY <2>3 DEF ReviewOutcome, Pauses
    <3> QED
      BY <3>1, <3>2, <2>1, <1>0, PausedTyped DEF Codes
  <2> QED
    BY <2>2, <2>3
<1>5. CASE MissingInput(w)
  BY <1>0, <1>5, <1>T, TypeNames, PausedTyped
     DEF Types, MissingInput, Executes, AtEnd, Current, Pauses, Codes
<1>6. CASE Read(w)
  <2>1. Current \in Steps /\ step[Current] \in StepRow /\ run \in RunRow
    BY <1>6, <1>T, TypeNames DEF Types, Read, Executes, AtEnd, Current
  <2>2. step' \in [Steps -> StepRow]
    BY <1>6, <2>1, <1>T, TypeNames DEF Types, Read, StepRow, StepStatuses
  <2>3. run' \in RunRow /\ run'.status = "running"
    <3>1. run.next + 1 \in 1..(Length + 1)
      BY <2>1, ClaimFacts DEF Current, Steps
    <3>2. run' = [run EXCEPT !.status = "running", !.next = run.next + 1]
      BY <1>6 DEF Read
    <3> QED
      BY <2>1, <3>1, <3>2 DEF RunRow, Active
  <2> QED
    BY <1>6, <2>2, <2>3, <1>0, <1>T, TypeNames DEF Types, Read, Typed, Grounded, Pauses
<1>7. CASE Propose(w)
  <2>1. Current \in Steps /\ step[Current] \in StepRow
    BY <1>7, <1>T, TypeNames DEF Types, Propose, Executes, AtEnd, Current
  <2>2. [step[Current] EXCEPT !.result = TRUE] \in StepRow
    BY <2>1 DEF StepRow
  <2> QED
    BY <1>0, <1>7, <2>1, <2>2, PausedTyped DEF Propose, Pauses, Codes
<1>8. CASE Identify(w)
  <2>1. Current \in Steps /\ step[Current] \in StepRow /\ run \in RunRow
        /\ held[w] \in ClaimType
    BY <1>8, <1>T, TypeNames DEF Types, Identify, Executes, AtEnd, Current
  <2>2. step' \in [Steps -> StepRow]
    BY <1>8, <2>1, <1>T, TypeNames DEF Types, Identify, StepRow, StepStatuses
  <2>3. run' \in RunRow /\ run'.status = "running"
    BY <1>8, <2>1 DEF Identify, RunRow, Active
  <2>4. TypeOK'
    BY <1>0, <1>8, <2>2, <2>3, <1>T, GotoTyped, TypeNames DEF Types, Identify
  <2>5. Grounded'
    BY <1>0, <1>8, <2>3, GotoTyped DEF Identify, Grounded, Pauses
  <2> QED
    BY <2>4, <2>5 DEF Typed
<1> QED
  BY <1>1, <1>2, <1>3, <1>4, <1>5, <1>6, <1>7, <1>8

\* What the document handler does between its checkpoints keeps the types.
LEMMA HandlerTyped ==
    ASSUME Typed, NEW w \in Workers,
           \/ LoseRun(w) \/ RefusedMidway(w) \/ Fence(w) \/ FindUncertain(w)
           \/ Upload(w) \/ Accept(w) \/ Unconfirmed(w) \/ Link(w)
           \/ ReadbackFails(w)
    PROVE  Typed'
<1> USE DEF runVars, provider, work
<1>T. TypeOK /\ Grounded /\ Types
  BY TypeNames DEF Typed
<1>S. StillOurs(w) => Current \in Steps
  BY DEF StillOurs, AtEnd, Current
<1>1. CASE LoseRun(w)
  <2>0. pc[w] # "idle"
    BY <1>1 DEF LoseRun, Resumed
  <2>1. TypeOK'
    BY <1>1, <2>0, <1>T, GotoTyped, TypeNames DEF Types, LoseRun
  <2>2. Grounded'
    BY <1>1, <2>0, <1>T, GotoTyped DEF LoseRun, Grounded, Current
  <2> QED
    BY <2>1, <2>2 DEF Typed
<1>2. CASE RefusedMidway(w)
  <2>0. pc[w] # "idle"
    BY <1>2 DEF RefusedMidway, Resumed
  <2>1. PICK code \in {"resumable", "new_plan"} : Refuse(code)
    BY <1>2 DEF RefusedMidway
  <2> QED
    BY <1>2, <1>S, <2>0, <2>1, RefusedTyped DEF RefusedMidway, Codes
<1>3. CASE Fence(w)
  <2>0. pc[w] # "idle" /\ Current \in Steps
    BY <1>3, <1>S DEF Fence, Resumed
  <2>1. step' \in [Steps -> StepRow]
    <3>1. [step[Current] EXCEPT !.operation = TRUE] \in StepRow
      BY <1>T, <2>0 DEF Types, StepRow
    <3> QED
      BY <1>3, <1>T, <2>0, <3>1 DEF Fence, Types
  <2>2. TypeOK'
    BY <1>3, <2>0, <2>1, <1>T, GotoTyped, TypeNames DEF Types, Fence, Uncertain
  <2>3. Grounded'
    BY <1>3, <2>0, <1>T, GotoTyped DEF Fence, Grounded, Current
  <2> QED
    BY <2>2, <2>3 DEF Typed
<1>4. CASE FindUncertain(w)
  <2>0. pc[w] # "idle"
    BY <1>4 DEF FindUncertain, Resumed
  <2> QED
    BY <1>4, <1>S, <2>0, RefusedTyped DEF FindUncertain, Codes
<1>5. CASE Upload(w)
  <2>0. pc[w] # "idle" /\ Current \in Steps
    BY <1>5, <1>S DEF Upload, Resumed
  <2>1. TypeOK'
    BY <1>5, <2>0, <1>T, TypeNames DEF Types, Upload, Goto
  <2>2. Grounded'
    BY <1>5, <2>0, <1>T DEF Upload, Goto, Grounded, Current, Types
  <2> QED
    BY <2>1, <2>2 DEF Typed
<1>6. CASE Accept(w)
  <2>0. pc[w] # "idle" /\ Current \in Steps
    BY <1>6, <1>T DEF Accept, Grounded
  <2>1. TypeOK'
    BY <1>6, <2>0, <1>T, GotoTyped, TypeNames DEF Types, Accept, Uncertain
  <2>2. Grounded'
    BY <1>6, <2>0, <1>T, GotoTyped DEF Accept, Grounded, Current
  <2> QED
    BY <2>1, <2>2 DEF Typed
<1>7. CASE Unconfirmed(w)
  <2>0. pc[w] # "idle" /\ Current \in Steps /\ step[Current] \in StepRow
    BY <1>7, <1>T DEF Unconfirmed, Grounded, Types
  <2> QED
    BY <1>7, <2>0, PausedTyped DEF Unconfirmed, Codes, Pauses, Uncertain
<1>8. CASE Link(w)
  <2>0. pc[w] # "idle" /\ Current \in Steps /\ step[Current] \in StepRow
    BY <1>8, <1>T, <1>S DEF Link, Accepted, Resumed, Types
  <2>1. [step[Current] EXCEPT !.result = TRUE] \in StepRow
    BY <2>0 DEF StepRow
  <2> QED
    BY <1>8, <2>0, <2>1, PausedTyped DEF Link, Codes, Pauses
<1>9. CASE ReadbackFails(w)
  <2>0. pc[w] # "idle" /\ Current \in Steps /\ step[Current] \in StepRow
    BY <1>9, <1>T, <1>S DEF ReadbackFails, Accepted, Resumed, Types
  <2> QED
    BY <1>9, <2>0, PausedTyped DEF ReadbackFails, Codes, Pauses, Uncertain
<1> QED
  BY <1>1, <1>2, <1>3, <1>4, <1>5, <1>6, <1>7, <1>8, <1>9

\* A worker that lets go of its job, and a job that ends.
LEMMA IdleTyped ==
    ASSUME Typed, NEW w \in Workers, Idle(w), UNCHANGED <<runVars, provider, review>>,
           NEW status \in {"pending", "completed"},
           \/ UNCHANGED job
           \/ pc[w] # "idle" /\ job' = [job EXCEPT ![held[w].job].status = status]
    PROVE  Typed'
<1>T. TypeOK /\ Grounded /\ Types
  BY TypeNames DEF Typed
<1>1. job' \in [Jobs -> JobRow]
  BY <1>T DEF Types, Grounded, JobRow
<1>2. /\ pc' \in [Workers -> {"idle", "begin", "identified", "fenced",
                              "uploading", "accepted", "returned", "raised"}]
      /\ held' \in [Workers -> ClaimType]
      /\ \A v \in Workers : pc'[v] # "idle" =>
            v # w /\ pc'[v] = pc[v] /\ held'[v] = held[v]
  BY <1>T, ClaimFacts DEF Types, Idle
<1>3. TypeOK'
  BY <1>1, <1>2, <1>T, TypeNames DEF Types, Idle, runVars, provider
<1>4. Grounded'
  BY <1>2, <1>T DEF Grounded, runVars, Current
<1> QED
  BY <1>3, <1>4 DEF Typed

\* The end of the retries keeps the rows of the run typed and paused at a step.
LEMMA BlockExhaustedTyped ==
    ASSUME Typed, BlockExhausted
    PROVE  /\ run' \in RunRow /\ step' \in [Steps -> StepRow]
           /\ run'.next = run.next
           /\ run'.status \in Pauses => Current \in Steps
<1>T. TypeOK /\ Grounded /\ Types
  BY TypeNames DEF Typed
<1>1. CASE run.status \in Final /\ UNCHANGED <<run, step>>
  BY <1>1, <1>T DEF Types, Final, Pauses
<1>2. CASE run' = [run EXCEPT !.status = "completed"] /\ UNCHANGED step
  BY <1>2, <1>T DEF Types, Final, Pauses, RunRow
<1>3. ASSUME ~AtEnd, NEW paused \in {"blocked", "reconciliation_required"},
             Pause(paused, "resumable", step[Current])
      PROVE  /\ run' \in RunRow /\ step' \in [Steps -> StepRow]
             /\ run'.next = run.next /\ Current \in Steps
  <2>1. Current \in Steps /\ step[Current] \in StepRow
    BY <1>3, <1>T DEF AtEnd, Current, Types
  <2> QED
    BY <1>3, <2>1, <1>T, PauseWrites DEF Pauses, Codes
<1> QED
  BY <1>1, <1>2, <1>3, BlockExhaustedWrites

\* What ends a job keeps the types, a worker's death and its exception included.
LEMMA EndTyped ==
    ASSUME Typed, NEW w \in Workers,
           \/ Finish(w) \/ Retry(w) \/ GiveUp(w) \/ LoseClaim(w) \/ Die(w)
           \/ Raise(w)
    PROVE  Typed'
<1>T. TypeOK /\ Grounded /\ Types
  BY TypeNames DEF Typed
<1>1. CASE Finish(w)
  BY <1>1, IdleTyped DEF Finish
<1>2. CASE Retry(w)
  BY <1>2, IdleTyped DEF Retry
<1>3. CASE LoseClaim(w)
  BY <1>3, IdleTyped DEF LoseClaim
<1>4. CASE GiveUp(w)
  <2>1. /\ run' \in RunRow /\ step' \in [Steps -> StepRow]
        /\ run'.next = run.next
        /\ run'.status \in Pauses => Current \in Steps
    BY <1>4, BlockExhaustedTyped DEF GiveUp
  <2>2. job' \in [Jobs -> JobRow]
    BY <1>4, <1>T DEF GiveUp, Types, Grounded, JobRow
  <2>3. /\ pc' \in [Workers -> {"idle", "begin", "identified", "fenced",
                                "uploading", "accepted", "returned", "raised"}]
        /\ held' \in [Workers -> ClaimType]
        /\ \A v \in Workers : pc'[v] # "idle" =>
              v # w /\ pc'[v] = pc[v] /\ held'[v] = held[v]
    BY <1>4, <1>T, ClaimFacts DEF GiveUp, Types, Idle
  <2>4. TypeOK'
    BY <1>4, <2>1, <2>2, <2>3, <1>T, TypeNames DEF Types, GiveUp, Idle, provider
  <2>5. Grounded'
    BY <2>1, <2>3, <1>T DEF Grounded, Current
  <2> QED
    BY <2>4, <2>5 DEF Typed
<1>5. ASSUME NEW at \in {"idle", "raised"}, Fault(w, at)
      PROVE  Typed'
  <2>1. landed' \subseteq Steps
    BY <1>5, <1>T DEF Fault, Types, Grounded, provider
  <2>2. /\ held' \in [Workers -> ClaimType]
        /\ pc' \in [Workers -> {"idle", "begin", "identified", "fenced",
                                "uploading", "accepted", "returned", "raised"}]
    BY <1>5, <1>T, ClaimFacts DEF Fault, Types
  <2>3. faults' \in 0..MaxFaults
    BY <1>5, <1>T, ClaimFacts DEF Fault, Types
  <2>4. TypeOK'
    BY <1>5, <2>1, <2>2, <2>3, <1>T, TypeNames DEF Fault, Types, runVars
  <2>5. Grounded'
    BY <1>5, <1>T DEF Fault, Types, Grounded, runVars, Current
  <2> QED
    BY <2>4, <2>5 DEF Typed
<1> QED
  BY <1>1, <1>2, <1>3, <1>4, <1>5 DEF Die, Raise

\* Claims, expired leases, and what the person does keep the types.
LEMMA OthersTyped ==
    ASSUME Typed,
           \/ \E w \in Workers, j \in Jobs : Claim(w, j)
           \/ \E j \in Jobs : Exhaust(j)
           \/ \E supply \in BOOLEAN : Resume(supply)
           \/ Cancel \/ Reconcile
           \/ \E s \in Steps : HumanReview(s)
    PROVE  Typed'
<1> USE DEF runVars, provider, work
<1>T. TypeOK /\ Grounded /\ Types
  BY TypeNames DEF Typed
<1>L. \A j \in Jobs : LeaseIsOld(j) => faults' \in 0..MaxFaults
  BY <1>T, ClaimFacts DEF LeaseIsOld, Types
<1>Q. QueueRun => job' \in [Jobs -> JobRow]
  BY <1>T DEF QueueRun, Types, JobRow
<1>1. ASSUME NEW w \in Workers, NEW j \in Jobs, Claim(w, j)
      PROVE  Typed'
  <2>1. job[j].attempts + 1 \in 1..MaxAttempts /\ j \in 0..MaxJobs
    BY <1>1, <1>T, ClaimFacts DEF Claim, Types, JobRow, Jobs
  <2>2. [status |-> "running", attempts |-> job[j].attempts + 1] \in JobRow
        /\ [job |-> j, attempts |-> job[j].attempts + 1] \in ClaimType
    BY <2>1 DEF JobRow, ClaimType
  <2>3. /\ job' \in [Jobs -> JobRow] /\ held' \in [Workers -> ClaimType]
        /\ pc' = [pc EXCEPT ![w] = "begin"]
        /\ \A v \in Workers : v # w => held'[v] = held[v]
        /\ held'[w] = [job |-> j, attempts |-> job[j].attempts + 1]
    BY <1>1, <2>2, <1>T DEF Claim, Types
  <2>4. faults' \in 0..MaxFaults
    BY <1>1, <1>L, <1>T DEF Claim, Types
  <2>5. TypeOK'
    BY <1>1, <2>3, <2>4, <1>T, TypeNames DEF Claim, Types
  <2>6. Grounded'
    BY <1>1, <2>1, <2>3, <1>T DEF Claim, Types, Grounded, Current
  <2> QED
    BY <2>5, <2>6 DEF Typed
<1>2. ASSUME NEW j \in Jobs, Exhaust(j)
      PROVE  Typed'
  <2>1. /\ run' \in RunRow /\ step' \in [Steps -> StepRow]
        /\ run'.next = run.next
        /\ run'.status \in Pauses => Current \in Steps
    BY <1>2, BlockExhaustedTyped DEF Exhaust
  <2>2. job' \in [Jobs -> JobRow]
    BY <1>2, <1>T DEF Exhaust, Types, JobRow
  <2>3. TypeOK'
    BY <1>2, <1>L, <2>1, <2>2, <1>T, TypeNames DEF Types, Exhaust
  <2>4. Grounded'
    BY <1>2, <2>1, <1>T DEF Exhaust, Grounded, Current
  <2> QED
    BY <2>3, <2>4 DEF Typed
<1>3. ASSUME NEW supply \in BOOLEAN, Resume(supply)
      PROVE  Typed'
  <2>1. run' \in RunRow /\ run'.next = run.next /\ run'.status = "queued"
    BY <1>3, <1>T DEF Resume, Types, RunRow, Active, Codes
  <2>2. step' \in [Steps -> StepRow]
    <3>1. CASE UNCHANGED step
      BY <3>1, <1>T DEF Types
    <3>2. CASE step' = [step EXCEPT ![Current].input = TRUE,
                                    ![Current].status = "pending"]
      <4>1. Current \in Steps /\ step[Current] \in StepRow
        BY <1>3, <1>T DEF Resume, Grounded, Pauses, Types
      <4>2. [step[Current] EXCEPT !.input = TRUE, !.status = "pending"] \in StepRow
        BY <4>1 DEF StepRow, StepStatuses
      <4>3. step' = [step EXCEPT ![Current] = [step[Current] EXCEPT
                                   !.input = TRUE, !.status = "pending"]]
        BY <3>2, <4>1, <1>T DEF Types
      <4> QED
        BY <4>2, <4>3, <1>T DEF Types
    <3> QED
      BY <1>3, <3>1, <3>2 DEF Resume
  <2> QED
    BY <1>3, <1>Q, <2>1, <2>2, <1>T, TypeNames
       DEF Resume, Typed, Types, Grounded, Current, Pauses
<1>4. CASE Cancel
  <2>1. run' \in RunRow /\ run'.next = run.next /\ run'.status = "cancelled"
    BY <1>4, <1>T DEF Cancel, Types, RunRow, Final, Codes
  <2> QED
    BY <1>4, <2>1, <1>T, TypeNames DEF Cancel, Typed, Types, Grounded, Current, Pauses
<1>5. CASE Reconcile
  <2>1. run' \in RunRow /\ run'.next = run.next /\ run'.status = "queued"
    BY <1>5, <1>T DEF Reconcile, Types, RunRow, Active, Codes
  <2>2. step' \in [Steps -> StepRow]
    BY <1>5, <1>T DEF Reconcile, Types, StepRow, StepStatuses
  <2>3. store' \in [Steps -> Uncertain \cup {"none", "linked"}]
    BY <1>5, <1>T DEF Reconcile, Types, Uncertain
  <2> QED
    BY <1>5, <1>Q, <2>1, <2>2, <2>3, <1>T, TypeNames
       DEF Reconcile, Typed, Types, Grounded, Current, Pauses
<1>6. ASSUME NEW s \in Steps, HumanReview(s)
      PROVE  Typed'
  <2>1. PICK move \in ReviewMoves(s) : review' = [review EXCEPT ![s] = move[2]]
    BY <1>6 DEF HumanReview
  <2>2. move[2] \in {"approved", "changed", "revised", "queued", "sent",
                     "unknown", "failed"}
    BY DEF ReviewMoves
  <2> QED
    BY <1>6, <2>1, <2>2, <1>T, TypeNames
       DEF HumanReview, Typed, Types, Grounded, Current
<1> QED
  BY <1>1, <1>2, <1>3, <1>4, <1>5, <1>6

LEMMA NextTyped == Typed /\ [Next]_vars => Typed'
<1> SUFFICES ASSUME Typed, [Next]_vars PROVE Typed'
  OBVIOUS
<1>1. CASE UNCHANGED vars
  BY <1>1, TypeNames
     DEF Typed, Types, Grounded, Current, vars, runVars, provider, work
<1>2. ASSUME NEW w \in Workers, Move(w)
      PROVE  Typed'
  BY <1>2, BeginTyped, HandlerTyped, EndTyped DEF Move
<1> QED
  BY <1>1, <1>2, EndTyped, OthersTyped DEF Next

\* The rows of a run, its jobs and its workers stay in their types.
THEOREM TypeCorrect == Spec => []TypeOK
<1>1. Typed => TypeOK
  BY DEF Typed
<1> QED
  BY <1>1, InitTyped, NextTyped, PTL DEF Spec

(***************************************************************************)
(* Claims.                                                                 *)
(***************************************************************************)
\* A claim is newer than every earlier one of its job.
ClaimMoves(w, j) ==
    /\ held' = [held EXCEPT ![w] = [job |-> j, attempts |-> job[j].attempts + 1]]
    /\ \A v \in Workers : v # w => pc'[v] = pc[v]
    /\ job'[j].attempts = job[j].attempts + 1
    /\ \A k \in Jobs : k # j => job'[k] = job[k]

\* Otherwise workers keep their claims or let go, and attempts stay.
ClaimsStay ==
    /\ \A v \in Workers : pc'[v] # "idle" => pc[v] # "idle" /\ held'[v] = held[v]
    /\ \A k \in Jobs : job'[k].attempts = job[k].attempts

LEMMA TurnClaims ==
    ASSUME Typed, NEW w \in Workers,
           \/ NothingToDo(w) \/ Complete(w) \/ Refused(w) \/ Reviewed(w)
           \/ MissingInput(w) \/ Read(w) \/ Propose(w) \/ Identify(w)
           \/ LoseRun(w) \/ RefusedMidway(w) \/ Fence(w) \/ FindUncertain(w)
           \/ Upload(w) \/ Accept(w) \/ Unconfirmed(w) \/ Link(w)
           \/ ReadbackFails(w)
    PROVE  ClaimsStay
<1>T. Types
  BY TypeNames DEF Typed
<1>0. pc[w] # "idle"
  BY DEF NothingToDo, Complete, Refused, Reviewed, MissingInput, Read, Propose,
         Identify, Executes, Begin, LoseRun, RefusedMidway, Fence, FindUncertain,
         Upload, Accept, Unconfirmed, Link, ReadbackFails, Accepted, Resumed
<1>1. \/ UNCHANGED <<pc, held, job>>
      \/ \E at : Goto(w, at) /\ UNCHANGED job
  <2>1. CASE Reviewed(w)
    BY <2>1 DEF Reviewed, Goto
  <2>2. CASE \/ NothingToDo(w) \/ Complete(w) \/ Refused(w) \/ MissingInput(w)
             \/ Read(w) \/ Propose(w) \/ Identify(w)
    BY <2>2 DEF NothingToDo, Complete, Refused, MissingInput, Read, Propose,
                Identify, work
  <2>3. CASE \/ LoseRun(w) \/ RefusedMidway(w) \/ Fence(w) \/ FindUncertain(w)
             \/ Upload(w) \/ Accept(w) \/ Unconfirmed(w) \/ Link(w)
             \/ ReadbackFails(w)
    BY <2>3 DEF LoseRun, RefusedMidway, Fence, FindUncertain,
                Upload, Accept, Unconfirmed, Link, ReadbackFails
  <2> QED
    BY <2>1, <2>2, <2>3
<1> QED
  BY <1>0, <1>1, <1>T DEF Goto, ClaimsStay, Types

LEMMA OtherClaims ==
    ASSUME Typed,
           \/ \E w \in Workers : \/ Finish(w) \/ Retry(w) \/ GiveUp(w)
                                 \/ LoseClaim(w) \/ Die(w) \/ Raise(w)
           \/ \E j \in Jobs : Exhaust(j)
           \/ \E supply \in BOOLEAN : Resume(supply)
           \/ Cancel \/ Reconcile
           \/ \E s \in Steps : HumanReview(s)
           \/ UNCHANGED vars
    PROVE  ClaimsStay
<1>T. Types /\ Grounded
  BY TypeNames DEF Typed
<1>1. ASSUME NEW w \in Workers, Finish(w) \/ Retry(w) \/ GiveUp(w) \/ LoseClaim(w)
      PROVE  ClaimsStay
  <2>1. Idle(w) /\ pc[w] # "idle"
    BY <1>1 DEF Finish, Retry, GiveUp, LoseClaim
  <2>2. \/ UNCHANGED job
        \/ \E status \in {"completed", "pending", "failed"} :
              job' = [job EXCEPT ![held[w].job].status = status]
    BY <1>1 DEF Finish, Retry, GiveUp, LoseClaim
  <2>3. held[w].job \in Jobs
    BY <2>1, <1>T DEF Grounded
  <2>4. \A k \in Jobs : job'[k].attempts = job[k].attempts
    BY <2>2, <2>3, <1>T DEF Types, JobRow
  <2> QED
    BY <2>1, <2>4, <1>T DEF Idle, ClaimsStay, Types
<1>2. ASSUME NEW w \in Workers, Die(w) \/ Raise(w)
      PROVE  ClaimsStay
  BY <1>2, <1>T DEF Die, Raise, Fault, ClaimsStay, Types
<1>3. ASSUME NEW j \in Jobs, Exhaust(j)
      PROVE  ClaimsStay
  BY <1>3, <1>T DEF Exhaust, ClaimsStay, Types, JobRow
<1>4. CASE (\E supply \in BOOLEAN : Resume(supply)) \/ Reconcile
  BY <1>4, <1>T DEF Resume, Reconcile, QueueRun, ClaimsStay, Types, JobRow
<1>5. CASE Cancel \/ (\E s \in Steps : HumanReview(s)) \/ UNCHANGED vars
  BY <1>5 DEF Cancel, HumanReview, vars, work, ClaimsStay
<1> QED
  BY <1>1, <1>2, <1>3, <1>4, <1>5

LEMMA NextClaimsApart ==
    ASSUME Typed, ClaimsApart, [Next]_vars
    PROVE  ClaimsApart'
<1>T. Types /\ Grounded
  BY TypeNames DEF Typed
<1>1. ASSUME NEW w \in Workers, NEW j \in Jobs, Claim(w, j)
      PROVE  ClaimsApart'
  <2>1. ClaimMoves(w, j)
    BY <1>1, <1>T DEF Claim, ClaimMoves, Types, JobRow
  <2>2. /\ held'[w].job = j /\ held'[w].attempts = job[j].attempts + 1
        /\ \A v \in Workers : v # w => held'[v] = held[v] /\ pc'[v] = pc[v]
        /\ \A k \in Jobs : job[k].attempts \in Nat /\ job'[k].attempts >= job[k].attempts
        /\ \A v \in Workers : held[v].attempts \in Nat
    <3>1. /\ \A k \in Jobs : job[k].attempts \in Nat
          /\ \A v \in Workers : held[v].attempts \in Nat
      BY <1>T, ClaimFacts DEF Types, JobRow, ClaimType
    <3> QED
      BY <2>1, <1>T, <3>1 DEF ClaimMoves, Types
  <2>3. \A v \in Workers : pc'[v] # "idle" =>
           held'[v].attempts <= job'[held'[v].job].attempts
    BY <2>1, <2>2, <1>T DEF ClaimMoves, ClaimsApart, Grounded
  <2>4. \A v \in Workers : v # w /\ pc[v] # "idle" => held'[v] # held'[w]
    BY <2>2, <1>T DEF ClaimsApart, Grounded
  <2> QED
    BY <2>2, <2>3, <2>4 DEF ClaimsApart
<1>2. CASE ClaimsStay
  BY <1>2, <1>T DEF ClaimsStay, ClaimsApart, Grounded
<1>3. ASSUME NEW w \in Workers, Move(w)
      PROVE  ClaimsStay
  BY <1>3, TurnClaims, OtherClaims DEF Move
<1> QED
  BY <1>1, <1>2, <1>3, OtherClaims DEF Next

(***************************************************************************)
(* What a step does to the run.                                            *)
(***************************************************************************)
\* The plan, and the rows of the steps that are not the present one, stay.
Elsewhere ==
    /\ run'.kinds = run.kinds
    /\ \A s \in Steps : s # Current =>
          /\ step'[s] = step[s] /\ store'[s] = store[s] /\ uploads'[s] = uploads[s]
          /\ Evidence(s) => Evidence(s)'

\* Nobody has just fenced an upload or begun it; and nobody is uploading.
NobodyStarts == \A w \in Workers :
    pc'[w] \in {"fenced", "uploading"} => pc'[w] = pc[w] /\ held'[w] = held[w]
NobodyUploads == \A w \in Workers : pc'[w] # "uploading"

\* The rows stay as they are, or a review that gave evidence goes on giving it.
Rests ==
    /\ UNCHANGED <<run, step, store, uploads>> /\ NobodyStarts
    /\ \A s \in Steps : Evidence(s) => Evidence(s)'

\* The run ends, cancelled or past its last step.
Ends ==
    /\ run.status \notin {"completed", "cancelled"} /\ NobodyUploads
    /\ run'.kinds = run.kinds /\ run'.next = run.next
    /\ \/ run'.status = "cancelled"
       \/ run'.status = "completed" /\ AtEnd
    /\ UNCHANGED <<step, store, uploads, review>>

\* The run is paused; with a document that may be stored, for reconciliation.
Stops ==
    /\ run.status \notin Final /\ run'.status \in Pauses /\ NobodyUploads
    /\ Current \in Steps /\ Elsewhere /\ run'.next = run.next
    /\ LET old == step[Current]
           new == step'[Current]
       IN /\ new.attempt = NoClaim /\ new.status # "completed"
          /\ new.input = old.input /\ new.artifact = old.artifact
          /\ old.result => new.result
          /\ uploads'[Current] = uploads[Current]
          /\ store[Current] # "none" => store'[Current] # "none"
          /\ store'[Current] # "none" => new.artifact /\ new.operation
          /\ store'[Current] \in Uncertain =>
                ~new.result /\ run'.status = "reconciliation_required"

\* The run goes on to its next step, on evidence for the present one.
Advances ==
    /\ run.status \in Active /\ run'.status \in Active /\ NobodyUploads
    /\ Current \in Steps /\ Elsewhere /\ run'.next = run.next + 1
    /\ LET new == step'[Current]
       IN /\ new.attempt = NoClaim /\ new.status = "completed" /\ new.result
          /\ \A s \in Steps : s = Current => Evidence(s)'
          /\ new.input = step[Current].input
          /\ new.artifact = step[Current].artifact
          /\ new.operation = step[Current].operation
          /\ uploads'[Current] = uploads[Current]
          /\ store'[Current] = store[Current] /\ store[Current] \notin Uncertain

\* A worker takes the present step, a document, in hand.
Identifies(w) ==
    /\ run.status \in Active /\ run'.status = "running" /\ NobodyUploads
    /\ pc[w] # "idle" /\ pc'[w] = "identified" /\ NobodyStarts
    /\ UNCHANGED <<held, store, uploads, review>>
    /\ Current \in Steps /\ Elsewhere /\ run'.next = run.next
    /\ LET old == step[Current]
           new == step'[Current]
       IN /\ new.attempt = held[w] /\ new.status = "executing"
          /\ old.input /\ new.input /\ new.artifact /\ Kinds[Current] = "draft"
          /\ ~old.result /\ ~new.result /\ new.operation = old.operation

\* Its worker fences the upload of a document that was never sent.
Fences(w) ==
    /\ StillOurs(w) /\ pc[w] # "idle" /\ UNCHANGED <<run, held, uploads, review>>
    /\ NobodyUploads /\ \A v \in Workers : v # w => pc'[v] = pc[v]
    /\ Elsewhere
    /\ step' = [step EXCEPT ![Current].operation = TRUE]
    /\ store[Current] = "none" /\ store'[Current] = "writing"

\* It begins the upload it fenced.
Uploads(w) ==
    /\ StillOurs(w) /\ pc[w] = "fenced" /\ UNCHANGED <<run, step, store, held, review>>
    /\ \A v \in Workers : pc[v] # "uploading"
    /\ pc' = [pc EXCEPT ![w] = "uploading"]
    /\ uploads' = [uploads EXCEPT ![Current] = @ + 1]

\* The provider's answer to it is committed.
Accepts(w) ==
    /\ StillOurs(w) /\ pc[w] = "uploading" /\ pc'[w] # "fenced" /\ NobodyUploads
    /\ UNCHANGED <<run, step, held, uploads, review>>
    /\ \A v \in Workers : v # w => pc'[v] = pc[v]
    /\ store' = [store EXCEPT ![Current] = "provider_accepted"]

\* A person queues a paused run again, as it is, with the input it lacked, or
\* with the object they found at the provider.
Requeues ==
    /\ run.status \in Pauses /\ run'.status = "queued" /\ NobodyUploads
    /\ Current \in Steps /\ Elsewhere /\ run'.next = run.next
    /\ LET old == step[Current]
           new == step'[Current]
       IN /\ new.attempt = old.attempt /\ new.status \in {old.status, "pending"}
          /\ old.input => new.input
          /\ new.artifact = old.artifact /\ new.result = old.result
          /\ new.operation = old.operation
          /\ uploads'[Current] = uploads[Current]
          /\ \/ store'[Current] = store[Current]
             \/ store[Current] \in Uncertain /\ store'[Current] = "provider_accepted"

Effect ==
    \/ Rests \/ Ends \/ Stops \/ Advances \/ Requeues
    \/ \E w \in Workers : Identifies(w) \/ Fences(w) \/ Uploads(w) \/ Accepts(w)

\* Workers that move on without a fence or an upload.
LEMMA GotoStarts ==
    ASSUME Typed, NEW w \in Workers,
           NEW at \in {"identified", "accepted", "returned", "raised"}, Goto(w, at)
    PROVE  /\ NobodyStarts /\ UNCHANGED held /\ pc'[w] = at
           /\ (\A v \in Workers : v # w => pc[v] # "uploading") => NobodyUploads
BY TypeNames DEF Typed, Types, Goto, NobodyStarts, NobodyUploads

\* Only one worker waits for the provider.
LEMMA OneUploader ==
    ASSUME UploaderOwns, ClaimsApart,
           NEW v \in Workers, NEW w \in Workers,
           pc[v] = "uploading", pc[w] = "uploading"
    PROVE  v = w
BY DEF UploaderOwns, ClaimsApart, StillOurs

\* A pause of the present step's row is a stop, if it minds an uncertain write.
LEMMA PauseStops ==
    ASSUME IInv, Current \in Steps, run.status \notin Final, NobodyUploads,
           NEW paused \in Pauses, NEW code \in Codes, NEW row \in StepRow,
           Pause(paused, code, row), UNCHANGED uploads,
           row.input = step[Current].input,
           row.artifact = step[Current].artifact,
           step[Current].result => row.result,
           step[Current].operation => row.operation,
           NEW put \in {"linked", "ambiguous"},
           \/ UNCHANGED store
           \/ store[Current] # "none" /\ store' = [store EXCEPT ![Current] = put],
           store'[Current] \in Uncertain =>
              ~row.result /\ paused = "reconciliation_required",
           \A s \in Steps : s # Current => review'[s] = review[s]
    PROVE  Stops
<1>T. TypeOK /\ Types
  BY TypeNames DEF IInv, Typed
<1>1. /\ run'.kinds = run.kinds /\ run'.next = run.next /\ run'.status = paused
      /\ \A s \in Steps : s # Current => step'[s] = step[s]
      /\ step'[Current].attempt = NoClaim
      /\ step'[Current].status # "completed"
      /\ step'[Current].input = row.input
      /\ step'[Current].result = row.result
      /\ step'[Current].artifact = row.artifact
      /\ step'[Current].operation = row.operation
  BY <1>T, PauseWrites
<1>2. /\ \A s \in Steps : s # Current => store'[s] = store[s]
      /\ store[Current] # "none" => store'[Current] # "none"
      /\ store'[Current] # "none" => store[Current] # "none"
  BY <1>T DEF Types
<1>3. Elsewhere
  BY <1>1, <1>2 DEF Elsewhere, Evidence, Kinds
<1>4. store'[Current] # "none" => step'[Current].artifact /\ step'[Current].operation
  BY <1>1, <1>2 DEF IInv, AttemptInHand
<1> QED
  BY <1>1, <1>2, <1>3, <1>4 DEF Stops

\* So is a refusal.
LEMMA RefuseStops ==
    ASSUME IInv, Current \in Steps, run.status \notin Final, NobodyUploads,
           NEW code \in Codes, Refuse(code), UNCHANGED <<uploads, review>>
    PROVE  Stops
<1>T. TypeOK /\ Types
  BY TypeNames DEF IInv, Typed
<1>1. PICK paused \in {"blocked", "reconciliation_required"}, row \in StepRow :
                 /\ Pause(paused, code, row)
                 /\ step[Current].artifact /\ store[Current] \in Uncertain
                    => paused = "reconciliation_required"
                 /\ row.input = step[Current].input
                 /\ row.result = step[Current].result
                 /\ row.artifact = step[Current].artifact
                 /\ step[Current].operation => row.operation
  BY <1>T, RefuseWrites
<1>2. UNCHANGED store
  BY <1>T, RefuseWrites
<1>3. paused \in Pauses
  BY DEF Pauses
<1>4. store'[Current] \in Uncertain =>
         ~row.result /\ paused = "reconciliation_required"
  BY <1>1, <1>2 DEF IInv, AttemptInHand, UncertainWriteHoldsTheRun, Uncertain
<1> QED
  BY <1>1, <1>2, <1>3, <1>4, PauseStops

\* And the end of the retries stops the run, ends it, or finds it ended.
LEMMA BlockExhaustedEffect ==
    ASSUME IInv, BlockExhausted, UNCHANGED <<store, uploads, review>>,
           NobodyUploads, NobodyStarts
    PROVE  Rests \/ Ends \/ Stops
<1>T. TypeOK /\ Types /\ RunStands
  BY TypeNames DEF IInv, Typed
<1>1. CASE run.status \in Final /\ UNCHANGED <<run, step>>
  BY <1>1 DEF Rests, Evidence, Kinds
<1>2. CASE /\ run.status \notin Final /\ AtEnd
           /\ run' = [run EXCEPT !.status = "completed"] /\ UNCHANGED step
  BY <1>2, <1>T DEF Ends, Types, RunRow, Final
<1>3. ASSUME run.status \notin Final, ~AtEnd,
             NEW paused \in {"blocked", "reconciliation_required"},
             Pause(paused, "resumable", step[Current]),
             step[Current].operation /\ store[Current] \in Uncertain
             => paused = "reconciliation_required"
      PROVE  Stops
  <2>1. Current \in Steps /\ step[Current] \in StepRow
    BY <1>3, <1>T DEF AtEnd, Current, Types
  <2>2. store'[Current] \in Uncertain =>
           ~step[Current].result /\ paused = "reconciliation_required"
    BY <1>3, <2>1 DEF IInv, AttemptInHand, UncertainWriteHoldsTheRun, Uncertain
  <2> QED
    BY <1>3, <2>1, <2>2, PauseStops DEF Pauses, Codes
<1> QED
  BY <1>1, <1>2, <1>3, BlockExhaustedWrites

\* A turn of the loop, up to its first commit.
LEMMA BeginEffect ==
    ASSUME IInv, NEW w \in Workers,
           \/ NothingToDo(w) \/ Complete(w) \/ Refused(w) \/ Reviewed(w)
           \/ MissingInput(w) \/ Read(w) \/ Propose(w) \/ Identify(w)
    PROVE  Effect
<1> USE DEF runVars, provider, work
<1>T. Typed /\ TypeOK /\ Types
  BY TypeNames DEF IInv, Typed
<1>0. pc[w] = "begin" /\ \A v \in Workers : pc[v] # "uploading"
  BY UnlockedFacts
     DEF NothingToDo, Complete, Refused, Reviewed, MissingInput, Read, Propose,
         Identify, Executes
<1>A. Active \cap Final = {}
  BY DEF Active, Final
<1>S. /\ ~AtEnd => Current \in Steps /\ step[Current] \in StepRow
      /\ store[Current] # "none" /\ Current \in Steps => step[Current].artifact
  BY <1>T DEF AtEnd, Current, Types, IInv, AttemptInHand
<1>1. CASE NothingToDo(w)
  BY <1>0, <1>1, <1>T, GotoStarts DEF NothingToDo, Rests, Effect, Evidence, Kinds
<1>2. CASE Complete(w)
  <2>1. NobodyUploads
    BY <1>0, <1>2, <1>T, GotoStarts DEF Complete
  <2> QED
    BY <1>2, <2>1, <1>T DEF Complete, Ends, Effect, Types, RunRow, Active
<1>3. CASE Refused(w)
  <2>1. NobodyUploads /\ Current \in Steps /\ run.status \notin Final
    BY <1>0, <1>3, <1>T, <1>A, <1>S, GotoStarts DEF Refused
  <2>2. PICK code \in {"resumable", "new_plan"} : Refuse(code)
    BY <1>3 DEF Refused
  <2> QED
    BY <1>3, <2>1, <2>2, RefuseStops DEF Refused, Codes, Effect
<1>4. CASE Reviewed(w)
  <2>1. /\ Current \in Steps /\ step[Current] \in StepRow /\ run.status \notin Final
        /\ run.status \in Active
        /\ step[Current].result /\ step[Current].attempt = NoClaim
        /\ store[Current] \notin Uncertain
    BY <1>4, <1>T, <1>A, <1>S
       DEF Reviewed, IInv, AttemptInHand, UncertainWriteHoldsTheRun
  <2>2. CASE ReviewOutcome(Current) = "completed"
    <3>1. Advance(step[Current]) /\ UNCHANGED <<store, provider, review, work>>
      BY <1>4, <2>2 DEF Reviewed
    <3>2. review[Current] \in {"approved", "sent"}
      BY <2>2 DEF ReviewOutcome
    <3>3. /\ run'.kinds = run.kinds
          /\ run'.next = run.next + 1 /\ run'.status = run.status
          /\ \A s \in Steps : s # Current => step'[s] = step[s]
          /\ step'[Current].attempt = NoClaim
          /\ step'[Current].status = "completed"
          /\ step'[Current].input = step[Current].input
          /\ step'[Current].result = step[Current].result
          /\ step'[Current].artifact = step[Current].artifact
          /\ step'[Current].operation = step[Current].operation
      BY <3>1, <2>1, <1>T, AdvanceWrites
    <3>4. Elsewhere /\ NobodyUploads /\ \A s \in Steps : s = Current => Evidence(s)'
      BY <3>1, <3>2, <3>3, <1>0 DEF Elsewhere, Evidence, Kinds, NobodyUploads
    <3>5. Advances
      BY <2>1, <3>1, <3>3, <3>4 DEF Advances
    <3> QED
      BY <3>5 DEF Effect
  <2>3. CASE ReviewOutcome(Current) # "completed"
    <3>1. Pause(ReviewOutcome(Current), "new_plan", step[Current])
          /\ Goto(w, "returned") /\ UNCHANGED <<store, provider, review, job>>
      BY <1>4, <2>3 DEF Reviewed, Goto
    <3>2. ReviewOutcome(Current) \in Pauses
      BY <2>3 DEF ReviewOutcome, Pauses
    <3>3. NobodyUploads
      BY <1>0, <1>T, <3>1, GotoStarts
    <3>4. Stops
      BY <3>1, <3>2, <3>3, <2>1, PauseStops DEF Codes
    <3> QED
      BY <3>4 DEF Effect
  <2> QED
    BY <2>2, <2>3
<1>5. CASE MissingInput(w)
  <2>1. /\ Current \in Steps /\ step[Current] \in StepRow /\ run.status \notin Final
        /\ ~step[Current].input /\ NobodyUploads
    BY <1>0, <1>5, <1>T, <1>A, <1>S, GotoStarts DEF MissingInput, Executes
  <2>2. store[Current] \notin Uncertain
    BY <2>1 DEF IInv, AttemptInHand, Uncertain
  <2>3. Pause("awaiting_input", "none", step[Current])
        /\ UNCHANGED <<store, uploads, review>>
    BY <1>5 DEF MissingInput
  <2>4. Stops
    BY <2>1, <2>2, <2>3, PauseStops DEF Pauses, Codes
  <2> QED
    BY <2>4 DEF Effect
<1>6. CASE Read(w)
  <2>1. /\ Current \in Steps /\ step[Current] \in StepRow /\ Kinds[Current] = "read"
        /\ run.status \in Active
    BY <1>6, <1>S DEF Read, Executes
  <2>2. step[Current].attempt = NoClaim /\ store[Current] \notin Uncertain
    BY <2>1 DEF IInv, AttemptInHand, Uncertain
  <2>3. /\ run'.kinds = run.kinds /\ run'.next = run.next + 1
        /\ run'.status = "running"
    BY <1>6, <1>T DEF Read, Types, RunRow, Current
  <2>4. /\ \A s \in Steps : s # Current => step'[s] = step[s]
        /\ step'[Current] = [step[Current] EXCEPT !.status = "completed",
                                                  !.result = TRUE]
    BY <1>6, <2>1, <1>T DEF Read, Types
  <2>5. /\ step'[Current].attempt = NoClaim /\ step'[Current].result
        /\ step'[Current].status = "completed"
        /\ step'[Current].input = step[Current].input
        /\ step'[Current].artifact = step[Current].artifact
        /\ step'[Current].operation = step[Current].operation
    BY <2>1, <2>2, <2>4 DEF StepRow
  <2>6. UNCHANGED <<store, uploads, review, pc>>
    BY <1>6 DEF Read
  <2>7. Elsewhere /\ NobodyUploads /\ \A s \in Steps : s = Current => Evidence(s)'
    BY <2>1, <2>3, <2>4, <2>6, <1>0 DEF Elsewhere, Evidence, Kinds, NobodyUploads
  <2>8. Advances
    BY <2>1, <2>2, <2>3, <2>5, <2>6, <2>7 DEF Advances, Active
  <2> QED
    BY <2>8 DEF Effect
<1>7. CASE Propose(w)
  <2> DEFINE row == [step[Current] EXCEPT !.result = TRUE]
  <2>1. /\ Current \in Steps /\ step[Current] \in StepRow /\ run.status \notin Final
        /\ Kinds[Current] \in {"mail", "task"} /\ NobodyUploads
    BY <1>0, <1>7, <1>T, <1>A, <1>S, GotoStarts DEF Propose, Executes
  <2>2. store[Current] \notin Uncertain
    BY <2>1 DEF IInv, AttemptInHand, Uncertain
  <2>3. /\ row \in StepRow /\ row.input = step[Current].input /\ row.result
        /\ row.artifact = step[Current].artifact
        /\ row.operation = step[Current].operation
    BY <2>1 DEF StepRow
  <2>4. Pause("awaiting_review", "none", row) /\ UNCHANGED <<store, uploads>>
        /\ \A s \in Steps : s # Current => review'[s] = review[s]
    BY <1>7, <1>T DEF Propose, Types
  <2> HIDE DEF row
  <2>5. Stops
    BY <2>1, <2>2, <2>3, <2>4, PauseStops DEF Pauses, Codes
  <2> QED
    BY <2>5 DEF Effect
<1>8. CASE Identify(w)
  <2>1. /\ Current \in Steps /\ step[Current] \in StepRow /\ run.status \in Active
        /\ Kinds[Current] = "draft" /\ ~step[Current].result /\ step[Current].input
    BY <1>8, <1>S DEF Identify, Executes
  <2>2. run'.kinds = run.kinds /\ run'.next = run.next /\ run'.status = "running"
    BY <1>8, <1>T DEF Identify, Types, RunRow
  <2>3. /\ \A s \in Steps : s # Current => step'[s] = step[s]
        /\ step'[Current] = [step[Current] EXCEPT !.status = "executing",
                                     !.attempt = held[w], !.artifact = TRUE]
    BY <1>8, <2>1, <1>T DEF Identify, Types
  <2>4. /\ step'[Current].attempt = held[w] /\ step'[Current].artifact
        /\ step'[Current].status = "executing"
        /\ step'[Current].input = step[Current].input
        /\ step'[Current].result = step[Current].result
        /\ step'[Current].operation = step[Current].operation
    BY <2>1, <2>3 DEF StepRow
  <2>5. /\ UNCHANGED <<held, store, uploads, review>> /\ NobodyUploads
        /\ pc'[w] = "identified" /\ NobodyStarts
    BY <1>8, <1>0, <1>T, GotoStarts DEF Identify
  <2>6. Elsewhere
    BY <2>2, <2>3, <2>5 DEF Elsewhere, Evidence, Kinds
  <2>7. Identifies(w)
    BY <2>1, <2>2, <2>4, <2>5, <2>6, <1>0 DEF Identifies
  <2> QED
    BY <2>7 DEF Effect
<1> QED
  BY <1>1, <1>2, <1>3, <1>4, <1>5, <1>6, <1>7, <1>8

\* The document handler, between its checkpoints.
LEMMA HandlerEffect ==
    ASSUME IInv, NEW w \in Workers,
           \/ LoseRun(w) \/ RefusedMidway(w) \/ Fence(w) \/ FindUncertain(w)
           \/ Upload(w) \/ Accept(w) \/ Unconfirmed(w) \/ Link(w)
           \/ ReadbackFails(w)
    PROVE  Effect
<1> USE DEF runVars, provider, work
<1>T. Typed /\ TypeOK /\ Types /\ Grounded
  BY TypeNames DEF IInv, Typed
<1>U. \A v \in Workers : v # w /\ pc[w] = "uploading" => pc[v] # "uploading"
  BY OneUploader DEF IInv
<1>S. StillOurs(w) => /\ run.status = "running" /\ run.status \notin Final
                      /\ Current \in Steps /\ step[Current] \in StepRow
  BY <1>T DEF StillOurs, AtEnd, Current, Types, Final
<1>0. ASSUME LoseRun(w) \/ RefusedMidway(w) \/ Fence(w) \/ FindUncertain(w)
             \/ Upload(w) \/ Link(w) \/ ReadbackFails(w)
      PROVE  pc[w] # "idle" /\ \A v \in Workers : pc[v] # "uploading"
  BY <1>0, UnlockedFacts
     DEF LoseRun, RefusedMidway, Fence, FindUncertain, Upload, Link, ReadbackFails,
         Accepted
<1>1. CASE LoseRun(w)
  BY <1>1, <1>T, GotoStarts DEF LoseRun, Rests, Effect, Evidence, Kinds
<1>2. CASE RefusedMidway(w) \/ FindUncertain(w)
  <2>1. PICK code \in Codes : Refuse(code)
    BY <1>2 DEF RefusedMidway, FindUncertain, Codes
  <2>2. StillOurs(w) /\ Goto(w, "returned") /\ UNCHANGED <<uploads, review>>
    BY <1>2 DEF RefusedMidway, FindUncertain
  <2>3. NobodyUploads
    BY <1>0, <1>2, <2>2, <1>T, GotoStarts
  <2>4. Stops
    BY <1>S, <2>1, <2>2, <2>3, RefuseStops
  <2> QED
    BY <2>4 DEF Effect
<1>3. CASE Fence(w)
  <2>1. /\ StillOurs(w) /\ store[Current] = "none" /\ Goto(w, "fenced")
        /\ step' = [step EXCEPT ![Current].operation = TRUE]
        /\ store' = [store EXCEPT ![Current] = "writing"]
        /\ UNCHANGED <<run, uploads, review>>
    BY <1>3 DEF Fence, Startable
  <2>2. /\ NobodyUploads /\ UNCHANGED held
        /\ \A v \in Workers : v # w => pc'[v] = pc[v]
    BY <1>0, <1>3, <1>T, <2>1 DEF Goto, NobodyUploads, Types
  <2>3. Elsewhere /\ store'[Current] = "writing"
    BY <2>1, <1>S, <1>T DEF Elsewhere, Types, Evidence, Kinds
  <2>4. Fences(w)
    BY <1>0, <1>3, <2>1, <2>2, <2>3 DEF Fences
  <2> QED
    BY <2>4 DEF Effect
<1>4. CASE Upload(w)
  <2>1. Uploads(w)
    BY <1>0, <1>4 DEF Upload, Resumed, Goto, Uploads
  <2> QED
    BY <2>1 DEF Effect
<1>5. CASE Accept(w)
  <2>1. StillOurs(w) /\ pc[w] = "uploading" /\ Goto(w, "accepted")
    BY <1>5 DEF Accept, IInv, UploaderOwns
  <2>2. /\ NobodyUploads /\ UNCHANGED held /\ pc'[w] # "fenced"
        /\ \A v \in Workers : v # w => pc'[v] = pc[v]
    BY <1>U, <1>T, <2>1 DEF Goto, NobodyUploads, Types
  <2>3. Accepts(w)
    BY <1>5, <2>1, <2>2 DEF Accept, Accepts
  <2> QED
    BY <2>3 DEF Effect
<1>6. CASE Unconfirmed(w)
  <2>1. StillOurs(w) /\ pc[w] = "uploading" /\ store[Current] = "writing"
    BY <1>6 DEF Unconfirmed, IInv, UploaderOwns
  <2>2. /\ store' = [store EXCEPT ![Current] = "ambiguous"]
        /\ Pause("reconciliation_required", "new_plan", step[Current])
        /\ Goto(w, "returned") /\ UNCHANGED <<uploads, review>>
    BY <1>6 DEF Unconfirmed
  <2>3. NobodyUploads
    BY <1>U, <1>T, <2>1, <2>2, GotoStarts
  <2>4. ~step[Current].result
    BY <2>1, <1>S DEF IInv, UncertainWriteHoldsTheRun, Uncertain
  <2>5. Stops
    BY <2>1, <2>2, <2>3, <2>4, <1>S, PauseStops DEF Pauses, Codes
  <2> QED
    BY <2>5 DEF Effect
<1>7. CASE Link(w)
  <2> DEFINE row == [step[Current] EXCEPT !.result = TRUE]
  <2>1. /\ StillOurs(w) /\ store[Current] = "provider_accepted"
        /\ store' = [store EXCEPT ![Current] = "linked"]
        /\ Pause("awaiting_review", "none", row) /\ UNCHANGED uploads
        /\ review' = [review EXCEPT ![Current] = "open"] /\ Goto(w, "returned")
    BY <1>7 DEF Link, Accepted
  <2>2. NobodyUploads
    BY <1>0, <1>7, <2>1, <1>T, GotoStarts
  <2>3. /\ row \in StepRow /\ row.input = step[Current].input /\ row.result
        /\ row.artifact = step[Current].artifact
        /\ row.operation = step[Current].operation
    BY <2>1, <1>S DEF StepRow
  <2>4. store'[Current] \notin Uncertain
    BY <2>1, <1>S, <1>T DEF Types, Uncertain
  <2>5. \A s \in Steps : s # Current => review'[s] = review[s]
    BY <2>1, <1>T DEF Types
  <2> HIDE DEF row
  <2>6. Stops
    BY <2>1, <2>2, <2>3, <2>4, <2>5, <1>S, PauseStops DEF Pauses, Codes
  <2> QED
    BY <2>6 DEF Effect
<1>8. CASE ReadbackFails(w)
  <2>1. /\ StillOurs(w) /\ store[Current] = "provider_accepted"
        /\ store' = [store EXCEPT ![Current] = "ambiguous"]
        /\ Pause("reconciliation_required", "new_plan", step[Current])
        /\ Goto(w, "returned") /\ UNCHANGED <<uploads, review>>
    BY <1>8 DEF ReadbackFails, Accepted
  <2>2. NobodyUploads
    BY <1>0, <1>8, <2>1, <1>T, GotoStarts
  <2>3. ~step[Current].result
    BY <2>1, <1>S DEF IInv, UncertainWriteHoldsTheRun, Uncertain
  <2>4. Stops
    BY <2>1, <2>2, <2>3, <1>S, PauseStops DEF Pauses, Codes
  <2> QED
    BY <2>4 DEF Effect
<1> QED
  BY <1>1, <1>2, <1>3, <1>4, <1>5, <1>6, <1>7, <1>8

\* The end of a job, a death and an exception.
LEMMA EndEffect ==
    ASSUME IInv, NEW w \in Workers,
           \/ Finish(w) \/ Retry(w) \/ GiveUp(w) \/ LoseClaim(w) \/ Die(w)
           \/ Raise(w)
    PROVE  Effect
<1> USE DEF runVars, provider, work
<1>T. Types
  BY TypeNames DEF IInv, Typed
<1>1. CASE Finish(w) \/ Retry(w) \/ LoseClaim(w)
  <2>1. Idle(w) /\ UNCHANGED <<run, step, store, uploads, review>>
    BY <1>1 DEF Finish, Retry, LoseClaim
  <2> QED
    BY <2>1, <1>T DEF Idle, Rests, Effect, Evidence, Kinds, NobodyStarts, Types
<1>2. CASE GiveUp(w)
  <2>1. NobodyStarts /\ NobodyUploads
    BY <1>2, <1>T DEF GiveUp, Idle, Unlocked, NobodyStarts, NobodyUploads, Types
  <2> QED
    BY <1>2, <2>1, BlockExhaustedEffect DEF GiveUp, Effect
<1>3. CASE Die(w) \/ Raise(w)
  <2>1. PICK at \in {"idle", "raised"} : Fault(w, at)
    BY <1>3 DEF Die, Raise
  <2>2. NobodyStarts
    BY <2>1, <1>T DEF Fault, NobodyStarts, Types
  <2> QED
    BY <2>1, <2>2 DEF Fault, Rests, Effect, Evidence, Kinds
<1> QED
  BY <1>1, <1>2, <1>3

\* A review that has given its evidence does not take it back.
LEMMA ReviewKeepsEvidence ==
    ASSUME Types, NEW s \in Steps, HumanReview(s), NEW r \in Steps, Evidence(r)
    PROVE  Evidence(r)'
<1>1. PICK move \in ReviewMoves(s) :
         review[s] = move[1] /\ review' = [review EXCEPT ![s] = move[2]]
  BY DEF HumanReview
<1>2. move[1] \in {"approved", "revised", "sent"} => move[2] = "revised"
  BY DEF ReviewMoves
<1>3. run' = run
  BY DEF HumanReview, runVars
<1> QED
  BY <1>1, <1>2, <1>3 DEF Evidence, Kinds, Types

\* Claims, expired leases and what the person does.
LEMMA OthersEffect ==
    ASSUME IInv,
           \/ \E w \in Workers, j \in Jobs : Claim(w, j)
           \/ \E j \in Jobs : Exhaust(j)
           \/ \E supply \in BOOLEAN : Resume(supply)
           \/ Cancel \/ Reconcile
           \/ \E s \in Steps : HumanReview(s)
           \/ UNCHANGED vars
    PROVE  Effect
<1> USE DEF runVars, provider, work
<1>T. Types /\ Grounded
  BY TypeNames DEF IInv, Typed
<1>1. CASE \E w \in Workers, j \in Jobs : Claim(w, j)
  BY <1>1, <1>T DEF Claim, Rests, Effect, Evidence, Kinds, NobodyStarts, Types
<1>2. ASSUME NEW j \in Jobs, Exhaust(j)
      PROVE  Effect
  <2>1. NobodyStarts /\ NobodyUploads
    BY <1>2 DEF Exhaust, Unlocked, NobodyStarts, NobodyUploads
  <2> QED
    BY <1>2, <2>1, BlockExhaustedEffect DEF Exhaust, Effect
<1>3. ASSUME NEW supply \in BOOLEAN, Resume(supply)
      PROVE  Effect
  <2>1. /\ run.status \in Pauses /\ run.status \notin Active \cup Final
        /\ run.status # "reconciliation_required" /\ NobodyUploads
        /\ UNCHANGED <<store, uploads, review>>
    BY <1>3 DEF Resume, Pauses, Active, Final, Unlocked, NobodyUploads
  <2>2. Current \in Steps /\ step[Current] \in StepRow
    BY <2>1, <1>T DEF Grounded, Types
  <2>3. run'.kinds = run.kinds /\ run'.next = run.next /\ run'.status = "queued"
    BY <1>3, <1>T DEF Resume, Types, RunRow
  <2>4. \/ UNCHANGED step
        \/ step' = [step EXCEPT ![Current] = [step[Current] EXCEPT
                                   !.input = TRUE, !.status = "pending"]]
    BY <1>3, <2>2, <1>T DEF Resume, Types
  <2>5. /\ \A s \in Steps : s # Current => step'[s] = step[s]
        /\ step'[Current].attempt = step[Current].attempt
        /\ step'[Current].status \in {step[Current].status, "pending"}
        /\ step[Current].input => step'[Current].input
        /\ step'[Current].result = step[Current].result
        /\ step'[Current].artifact = step[Current].artifact
        /\ step'[Current].operation = step[Current].operation
    <3>1. CASE UNCHANGED step
      BY <3>1
    <3>2. CASE step' = [step EXCEPT ![Current] = [step[Current] EXCEPT
                                   !.input = TRUE, !.status = "pending"]]
      BY <2>2, <3>2, <1>T DEF StepRow, Types
    <3> QED
      BY <2>4, <3>1, <3>2
  <2>6. Elsewhere
    BY <2>1, <2>3, <2>5 DEF Elsewhere, Evidence, Kinds
  <2>7. Requeues
    BY <2>1, <2>2, <2>3, <2>5, <2>6 DEF Requeues
  <2> QED
    BY <2>7 DEF Effect
<1>4. CASE Cancel
  <2>1. run'.kinds = run.kinds /\ run'.next = run.next /\ run'.status = "cancelled"
    BY <1>4, <1>T DEF Cancel, Types, RunRow
  <2> QED
    BY <1>4, <2>1 DEF Cancel, Ends, Effect, Unlocked, NobodyUploads
<1>5. CASE Reconcile
  <2>1. /\ run.status \in Pauses /\ NobodyUploads /\ UNCHANGED <<uploads, review>>
        /\ Current \in Steps /\ step[Current] \in StepRow
        /\ store[Current] \in Uncertain
    BY <1>5, <1>T
       DEF Reconcile, Pauses, Unlocked, NobodyUploads, AtEnd, Current, Types
  <2>2. /\ store'[Current] = "provider_accepted"
        /\ \A s \in Steps : s # Current => store'[s] = store[s]
    BY <1>5, <2>1, <1>T DEF Reconcile, Types
  <2>3. run'.kinds = run.kinds /\ run'.next = run.next /\ run'.status = "queued"
    BY <1>5, <1>T DEF Reconcile, Types, RunRow
  <2>4. step' = [step EXCEPT ![Current].status = "pending"]
    BY <1>5 DEF Reconcile
  <2>5. /\ \A s \in Steps : s # Current => step'[s] = step[s]
        /\ step'[Current].attempt = step[Current].attempt
        /\ step'[Current].status \in {step[Current].status, "pending"}
        /\ step[Current].input => step'[Current].input
        /\ step'[Current].result = step[Current].result
        /\ step'[Current].artifact = step[Current].artifact
        /\ step'[Current].operation = step[Current].operation
    BY <2>1, <2>4, <1>T DEF StepRow, Types
  <2>6. Elsewhere
    BY <2>1, <2>2, <2>3, <2>5 DEF Elsewhere, Evidence, Kinds
  <2>7. \/ store'[Current] = store[Current]
        \/ store[Current] \in Uncertain /\ store'[Current] = "provider_accepted"
    BY <2>1, <2>2
  <2>8. Requeues
    BY <2>1, <2>3, <2>5, <2>6, <2>7 DEF Requeues
  <2> QED
    BY <2>8 DEF Effect
<1>6. ASSUME NEW s \in Steps, HumanReview(s)
      PROVE  Effect
  <2>1. NobodyStarts /\ UNCHANGED <<run, step, store, uploads>>
    BY <1>6 DEF HumanReview, NobodyStarts
  <2> QED
    BY <1>6, <2>1, <1>T, ReviewKeepsEvidence DEF Rests, Effect
<1>7. CASE UNCHANGED vars
  BY <1>7 DEF vars, Rests, Effect, Evidence, Kinds, NobodyStarts
<1> QED
  BY <1>1, <1>2, <1>3, <1>4, <1>5, <1>6, <1>7

\* A step does one of the nine things.
LEMMA StepEffects == IInv /\ [Next]_vars => Effect
<1> SUFFICES ASSUME IInv, [Next]_vars PROVE Effect
  OBVIOUS
<1>1. ASSUME NEW w \in Workers, Move(w)
      PROVE  Effect
  BY <1>1, BeginEffect, HandlerEffect, EndEffect DEF Move
<1> QED
  BY <1>1, EndEffect, OthersEffect DEF Next

(***************************************************************************)
(* The invariants, effect by effect.                                       *)
(***************************************************************************)
LEMMA NextRunStands ==
    ASSUME IInv, Effect
    PROVE  RunStands'
<1>T. Types /\ RunStands
  BY TypeNames DEF IInv, Typed
<1>1. CASE Ends
  <2>1. run'.status = "completed" => run.next = Length + 1
    BY <1>1, <1>T, ClaimFacts DEF Ends, AtEnd, Steps, Types, RunRow
  <2> QED
    BY <1>1, <2>1 DEF Ends, RunStands
<1>2. CASE Stops \/ Advances \/ Requeues
  BY <1>2 DEF Stops, Advances, Requeues, RunStands, Pauses, Active
<1>3. CASE \E w \in Workers : Identifies(w)
  BY <1>3 DEF Identifies, RunStands
<1>4. CASE Rests \/ (\E w \in Workers : Fences(w) \/ Uploads(w) \/ Accepts(w))
  BY <1>4, <1>T DEF Rests, Fences, Uploads, Accepts, RunStands
<1> QED
  BY <1>1, <1>2, <1>3, <1>4 DEF Effect

\* A step that goes on is one; nothing else changes the number of the next.
LEMMA NextNumbers ==
    ASSUME Types
    PROVE  /\ run.next \in Nat /\ \A s \in Steps : s \in Nat
           /\ \A s \in Steps : s = Current <=> s = run.next
BY ClaimFacts DEF Types, RunRow, Current

LEMMA NextPlanInOrder ==
    ASSUME IInv, Effect
    PROVE  PlanInOrder'
<1>T. Types /\ PlanInOrder
  BY TypeNames DEF IInv, Typed
<1>N. /\ run.next \in Nat /\ \A s \in Steps : s \in Nat
      /\ \A s \in Steps : s = Current <=> s = run.next
  BY <1>T, NextNumbers
<1> USE DEF Untouched
<1>1. CASE Rests \/ Ends
  BY <1>1, <1>T DEF Rests, Ends, PlanInOrder, Evidence, Kinds
<1>2. CASE Stops
  <2>1. /\ run'.next = run.next /\ Current \in Steps
        /\ step'[Current].status # "completed"
        /\ \A s \in Steps : s # Current => step'[s] = step[s]
        /\ \A s \in Steps : s # Current /\ Evidence(s) => Evidence(s)'
    BY <1>2 DEF Stops, Elsewhere
  <2> QED
    BY <2>1, <1>N, <1>T DEF PlanInOrder
<1>3. CASE Advances
  <2>1. /\ run'.next = run.next + 1 /\ Current \in Steps
        /\ step'[Current].status = "completed" /\ step'[Current].result
        /\ \A s \in Steps : s # Current => step'[s] = step[s]
        /\ \A s \in Steps : Evidence(s) \/ s = Current => Evidence(s)'
    BY <1>3 DEF Advances, Elsewhere
  <2> QED
    BY <2>1, <1>N, <1>T DEF PlanInOrder
<1>4. CASE Requeues
  <2>1. /\ run'.next = run.next /\ Current \in Steps
        /\ step'[Current].status = "completed" => step[Current].status = "completed"
        /\ \A s \in Steps : s # Current => step'[s] = step[s]
        /\ \A s \in Steps : s # Current /\ Evidence(s) => Evidence(s)'
    BY <1>4 DEF Requeues, Elsewhere
  <2> QED
    BY <2>1, <1>N, <1>T DEF PlanInOrder
<1>5. ASSUME NEW w \in Workers, Identifies(w)
      PROVE  PlanInOrder'
  <2>1. /\ run'.next = run.next /\ Current \in Steps
        /\ step'[Current].status = "executing"
        /\ \A s \in Steps : s # Current => step'[s] = step[s]
        /\ \A s \in Steps : s # Current /\ Evidence(s) => Evidence(s)'
    BY <1>5 DEF Identifies, Elsewhere
  <2> QED
    BY <2>1, <1>N, <1>T DEF PlanInOrder
<1>6. ASSUME NEW w \in Workers, Fences(w)
      PROVE  PlanInOrder'
  <2>1. /\ run' = run /\ Current \in Steps
        /\ step'[Current].status = step[Current].status
        /\ \A s \in Steps : s # Current => step'[s] = step[s]
        /\ \A s \in Steps : s # Current /\ Evidence(s) => Evidence(s)'
    BY <1>6, <1>T DEF Fences, Elsewhere, StillOurs, AtEnd, Current, Types, StepRow
  <2> QED
    BY <2>1, <1>N, <1>T DEF PlanInOrder
<1>7. CASE \E w \in Workers : Uploads(w) \/ Accepts(w)
  BY <1>7, <1>T DEF Uploads, Accepts, PlanInOrder, Evidence, Kinds
<1> QED
  BY <1>1, <1>2, <1>3, <1>4, <1>5, <1>6, <1>7 DEF Effect

LEMMA NextAttemptInHand ==
    ASSUME IInv, Effect
    PROVE  AttemptInHand'
<1>T. Types /\ AttemptInHand
  BY TypeNames DEF IInv, Typed
<1>N. /\ run.next \in Nat /\ \A s \in Steps : s \in Nat
      /\ \A s \in Steps : s = Current <=> s = run.next
  BY <1>T, NextNumbers
<1> USE DEF Kinds
<1>1. CASE Rests \/ Ends
  BY <1>1, <1>T DEF Rests, Ends, AttemptInHand
<1>2. CASE Stops
  <2>1. /\ run'.next = run.next /\ run'.kinds = run.kinds
        /\ \A s \in Steps : s # Current => step'[s] = step[s] /\ store'[s] = store[s]
        /\ step'[Current].attempt = NoClaim
        /\ step'[Current].input = step[Current].input
        /\ step'[Current].artifact = step[Current].artifact
        /\ store'[Current] # "none" =>
              step'[Current].artifact /\ step'[Current].operation
    BY <1>2 DEF Stops, Elsewhere
  <2> QED
    BY <2>1, <1>N, <1>T DEF AttemptInHand
<1>3. CASE Advances
  <2>1. /\ run'.next = run.next + 1 /\ run'.kinds = run.kinds
        /\ \A s \in Steps : s # Current => step'[s] = step[s] /\ store'[s] = store[s]
        /\ step'[Current].attempt = NoClaim
        /\ step'[Current].input = step[Current].input
        /\ step'[Current].artifact = step[Current].artifact
        /\ step'[Current].operation = step[Current].operation
        /\ store'[Current] = store[Current]
    BY <1>3 DEF Advances, Elsewhere
  <2> QED
    BY <2>1, <1>N, <1>T DEF AttemptInHand
<1>4. CASE Requeues
  <2>1. /\ run'.next = run.next /\ run'.kinds = run.kinds
        /\ \A s \in Steps : s # Current => step'[s] = step[s] /\ store'[s] = store[s]
        /\ step'[Current].attempt = step[Current].attempt
        /\ step'[Current].result = step[Current].result
        /\ step[Current].input => step'[Current].input
        /\ step'[Current].artifact = step[Current].artifact
        /\ step'[Current].operation = step[Current].operation
        /\ store'[Current] # "none" => store[Current] # "none"
    BY <1>4 DEF Requeues, Elsewhere, Uncertain
  <2> QED
    BY <2>1, <1>N, <1>T DEF AttemptInHand
<1>5. ASSUME NEW w \in Workers, Identifies(w)
      PROVE  AttemptInHand'
  <2>1. /\ run'.next = run.next /\ run'.kinds = run.kinds
        /\ \A s \in Steps : s # Current => step'[s] = step[s] /\ store'[s] = store[s]
        /\ ~step'[Current].result /\ step'[Current].input
        /\ step'[Current].artifact /\ Kinds[Current] = "draft"
        /\ step'[Current].operation = step[Current].operation
        /\ store'[Current] = store[Current]
    BY <1>5 DEF Identifies, Elsewhere
  <2> QED
    BY <2>1, <1>N, <1>T DEF AttemptInHand
<1>6. ASSUME NEW w \in Workers, Fences(w)
      PROVE  AttemptInHand'
  <2>1. /\ run' = run /\ Current \in Steps /\ step[Current].attempt # NoClaim
        /\ \A s \in Steps : s # Current => step'[s] = step[s] /\ store'[s] = store[s]
        /\ step'[Current] = [step[Current] EXCEPT !.operation = TRUE]
        /\ step[Current] \in StepRow
    <3>1. Current \in Steps /\ step[Current].attempt = held[w] /\ held[w] # NoClaim
      BY <1>6, ClaimFacts
         DEF Fences, StillOurs, AtEnd, Current, IInv, Typed, Grounded, Jobs
    <3> QED
      BY <1>6, <1>T, <3>1 DEF Fences, Elsewhere, Types
  <2>2. /\ step'[Current].attempt = step[Current].attempt
        /\ step'[Current].result = step[Current].result
        /\ step'[Current].input = step[Current].input
        /\ step'[Current].artifact = step[Current].artifact
        /\ step'[Current].operation
    BY <2>1 DEF StepRow
  <2> QED
    BY <2>1, <2>2, <1>N, <1>T DEF AttemptInHand
<1>7. ASSUME NEW w \in Workers, Uploads(w) \/ Accepts(w)
      PROVE  AttemptInHand'
  <2>1. /\ run' = run /\ step' = step
        /\ \A s \in Steps : store'[s] # "none" => store[s] # "none"
    BY <1>7, <1>T DEF Uploads, Accepts, IInv, UploaderOwns, Types
  <2> QED
    BY <2>1, <1>T DEF AttemptInHand
<1> QED
  BY <1>1, <1>2, <1>3, <1>4, <1>5, <1>6, <1>7 DEF Effect

LEMMA NextTraced ==
    ASSUME IInv, Effect
    PROVE  Traced'
<1>T. Types /\ Traced /\ UploaderOwns
  BY TypeNames DEF IInv, Typed
<1>1. CASE Rests \/ Ends
  BY <1>1, <1>T DEF Rests, Ends, Traced
<1>2. CASE Stops \/ Advances \/ Requeues
  <2>1. /\ \A s \in Steps : uploads'[s] = uploads[s]
        /\ \A s \in Steps : store[s] # "none" => store'[s] # "none"
    BY <1>2 DEF Stops, Advances, Requeues, Elsewhere
  <2> QED
    BY <2>1, <1>T DEF Traced
<1>3. CASE \E w \in Workers : Identifies(w)
  BY <1>3, <1>T DEF Identifies, Traced
<1>4. ASSUME NEW w \in Workers, Fences(w)
      PROVE  Traced'
  BY <1>4, <1>T DEF Fences, Elsewhere, Traced
<1>5. ASSUME NEW w \in Workers, Uploads(w)
      PROVE  Traced'
  <2>1. uploads[Current] = 0 /\ store[Current] = "writing" /\ Current \in Steps
    BY <1>5, <1>T DEF Uploads, UploaderOwns, StillOurs, AtEnd, Current
  <2> QED
    BY <1>5, <2>1, <1>T DEF Uploads, Traced, Types
<1>6. ASSUME NEW w \in Workers, Accepts(w)
      PROVE  Traced'
  BY <1>6, <1>T DEF Accepts, Traced, Types
<1> QED
  BY <1>1, <1>2, <1>3, <1>4, <1>5, <1>6 DEF Effect

LEMMA NextUncertain ==
    ASSUME IInv, Effect
    PROVE  UncertainWriteHoldsTheRun'
<1>T. Types /\ UncertainWriteHoldsTheRun
  BY TypeNames DEF IInv, Typed
<1>N. /\ run.next \in Nat /\ \A s \in Steps : s \in Nat
      /\ \A s \in Steps : s = Current <=> s = run.next
  BY <1>T, NextNumbers
<1>1. CASE Rests \/ Ends
  <2>1. /\ run'.next = run.next /\ UNCHANGED <<step, store>>
        /\ run'.status \in {run.status, "cancelled", "completed"}
        /\ run'.status # "completed" \/ run.status = "completed" \/ AtEnd
    BY <1>1 DEF Rests, Ends
  <2>2. \A s \in Steps : store[s] \in Uncertain => ~AtEnd /\ run.status # "completed"
    BY <1>T DEF UncertainWriteHoldsTheRun, AtEnd, Active
  <2> QED
    BY <2>1, <2>2, <1>T DEF UncertainWriteHoldsTheRun
<1>2. CASE Stops
  <2>1. /\ run'.next = run.next
        /\ \A s \in Steps : s # Current => store'[s] = store[s]
        /\ store'[Current] \in Uncertain =>
              ~step'[Current].result /\ run'.status = "reconciliation_required"
    BY <1>2 DEF Stops, Elsewhere
  <2> QED
    BY <2>1, <1>N, <1>T DEF UncertainWriteHoldsTheRun
<1>3. CASE Advances
  <2>1. /\ \A s \in Steps : s # Current => store'[s] = store[s]
        /\ store'[Current] \notin Uncertain
    BY <1>3 DEF Advances, Elsewhere
  <2> QED
    BY <2>1, <1>N, <1>T DEF UncertainWriteHoldsTheRun
<1>4. CASE Requeues
  <2>1. /\ run'.next = run.next /\ run'.status = "queued"
        /\ \A s \in Steps : s # Current => store'[s] = store[s]
        /\ step'[Current].result = step[Current].result
        /\ store'[Current] \in Uncertain => store[Current] \in Uncertain
    BY <1>4 DEF Requeues, Elsewhere
  <2> QED
    BY <2>1, <1>N, <1>T DEF UncertainWriteHoldsTheRun, Active
<1>5. ASSUME NEW w \in Workers, Identifies(w)
      PROVE  UncertainWriteHoldsTheRun'
  <2>1. /\ run'.next = run.next /\ run'.status = "running" /\ store' = store
        /\ ~step'[Current].result
    BY <1>5 DEF Identifies
  <2> QED
    BY <2>1, <1>N, <1>T DEF UncertainWriteHoldsTheRun, Active
<1>6. ASSUME NEW w \in Workers, Fences(w)
      PROVE  UncertainWriteHoldsTheRun'
  <2>1. /\ run' = run /\ run.status = "running" /\ Current \in Steps
        /\ step[Current].attempt = held[w] /\ held[w] # NoClaim
    BY <1>6, ClaimFacts
       DEF Fences, StillOurs, AtEnd, Current, IInv, Typed, Grounded, Jobs
  <2>2. ~step[Current].result
    BY <2>1 DEF IInv, AttemptInHand
  <2>3. ~step'[Current].result
    BY <1>6, <2>1, <2>2, <1>T DEF Fences, Types, StepRow
  <2>4. \A s \in Steps : s # Current => store'[s] = store[s]
    BY <1>6 DEF Fences, Elsewhere
  <2> QED
    BY <2>1, <2>3, <2>4, <1>N, <1>T DEF UncertainWriteHoldsTheRun, Active
<1>7. ASSUME NEW w \in Workers, Uploads(w) \/ Accepts(w)
      PROVE  UncertainWriteHoldsTheRun'
  <2>1. /\ run' = run /\ step' = step
        /\ \A s \in Steps : store'[s] \in Uncertain => store[s] \in Uncertain
    BY <1>7, <1>T DEF Uploads, Accepts, IInv, UploaderOwns, Types, Uncertain
  <2> QED
    BY <2>1, <1>T DEF UncertainWriteHoldsTheRun
<1> QED
  BY <1>1, <1>2, <1>3, <1>4, <1>5, <1>6, <1>7 DEF Effect

\* Two workers of the same attempt are one.
LEMMA OneAttempt ==
    ASSUME IInv, NEW v \in Workers, NEW w \in Workers,
           pc[v] # "idle", pc[w] # "idle", StillOurs(v), StillOurs(w)
    PROVE  v = w
BY DEF IInv, ClaimsApart, StillOurs

LEMMA NextUploaderOwns ==
    ASSUME IInv, Effect, Typed'
    PROVE  UploaderOwns'
<1>T. Types /\ UploaderOwns
  BY TypeNames DEF IInv, Typed
<1>N. /\ run.next \in Nat /\ \A s \in Steps : s \in Nat
      /\ \A s \in Steps : s = Current <=> s = run.next
  BY <1>T, NextNumbers
<1>1. CASE Rests
  <2>1. \A v \in Workers : pc'[v] \in {"fenced", "uploading"} =>
           pc[v] = pc'[v] /\ held'[v] = held[v]
    BY <1>1 DEF Rests, NobodyStarts
  <2> QED
    BY <1>1, <2>1, <1>T DEF Rests, UploaderOwns, StillOurs, AtEnd, Current
<1>2. CASE Ends \/ Stops \/ Requeues
  <2>1. run'.status # "running" /\ NobodyUploads
    BY <1>2 DEF Ends, Stops, Requeues, Pauses
  <2> QED
    BY <2>1 DEF UploaderOwns, StillOurs, NobodyUploads
<1>3. CASE Advances
  <2>1. /\ run'.next = run.next + 1 /\ NobodyUploads
        /\ \A s \in Steps : s # Current => step'[s] = step[s]
    BY <1>3 DEF Advances, Elsewhere
  <2>2. \A s \in Steps : s = run'.next => step'[s].attempt = NoClaim
    BY <2>1, <1>N DEF IInv, PlanInOrder, Untouched
  <2>3. \A v \in Workers : pc'[v] # "idle" => held'[v] # NoClaim
    BY ClaimFacts DEF Typed, Grounded, Jobs
  <2>4. \A v \in Workers : pc'[v] # "idle" => ~StillOurs(v)'
    BY <2>2, <2>3 DEF StillOurs, AtEnd, Current
  <2> QED
    BY <2>1, <2>4 DEF UploaderOwns, NobodyUploads
<1>4. ASSUME NEW w \in Workers, Identifies(w)
      PROVE  UploaderOwns'
  <2>1. /\ run'.next = run.next /\ step'[Current].attempt = held[w]
        /\ pc[w] # "idle" /\ pc'[w] = "identified" /\ held' = held
        /\ \A v \in Workers : pc'[v] = "fenced" => pc[v] # "idle"
        /\ NobodyUploads
    BY <1>4 DEF Identifies, NobodyStarts
  <2>2. \A v \in Workers : pc'[v] = "fenced" => held[v] # held[w]
    BY <2>1 DEF IInv, ClaimsApart
  <2>3. \A v \in Workers : pc'[v] = "fenced" => ~StillOurs(v)'
    BY <2>1, <2>2 DEF StillOurs, Current
  <2> QED
    BY <2>1, <2>3 DEF UploaderOwns, NobodyUploads
<1>5. ASSUME NEW w \in Workers, Fences(w)
      PROVE  UploaderOwns'
  <2>1. Current \in Steps /\ uploads[Current] = 0 /\ store'[Current] = "writing"
    BY <1>5, <1>T DEF Fences, StillOurs, AtEnd, Current, IInv, Traced
  <2>2. /\ run' = run /\ held' = held /\ uploads' = uploads /\ NobodyUploads
        /\ \A v \in Workers : v # w => pc'[v] = pc[v]
        /\ step'[Current].attempt = step[Current].attempt
    BY <1>5, <2>1, <1>T DEF Fences, Types, StepRow
  <2>3. \A v \in Workers : StillOurs(v)' => StillOurs(v)
    BY <2>2 DEF StillOurs, AtEnd, Current
  <2>4. \A v \in Workers : pc'[v] = "fenced" /\ StillOurs(v)' => v = w
    BY <1>5, <2>2, <2>3, OneAttempt DEF Fences
  <2> QED
    BY <2>1, <2>2, <2>4 DEF UploaderOwns, NobodyUploads, Current
<1>6. ASSUME NEW w \in Workers, Uploads(w)
      PROVE  UploaderOwns'
  <2>1. /\ StillOurs(w) /\ pc[w] = "fenced" /\ store[Current] = "writing"
        /\ UNCHANGED <<run, step, store, held>>
        /\ \A v \in Workers : pc[v] # "uploading"
        /\ \A v \in Workers : v # w => pc'[v] = pc[v]
        /\ pc'[w] = "uploading"
    BY <1>6, <1>T DEF Uploads, UploaderOwns, Types
  <2>2. \A v \in Workers : StillOurs(v)' <=> StillOurs(v)
    BY <2>1 DEF StillOurs, AtEnd, Current
  <2>3. \A v \in Workers : pc'[v] = "fenced" => ~StillOurs(v)
    BY <2>1, OneAttempt
  <2> QED
    BY <2>1, <2>2, <2>3 DEF UploaderOwns, Current
<1>7. ASSUME NEW w \in Workers, Accepts(w)
      PROVE  UploaderOwns'
  <2>1. /\ StillOurs(w) /\ pc[w] = "uploading" /\ pc'[w] # "fenced"
        /\ UNCHANGED <<run, step, held>> /\ NobodyUploads
        /\ \A v \in Workers : v # w => pc'[v] = pc[v]
    BY <1>7 DEF Accepts
  <2>2. \A v \in Workers : StillOurs(v)' <=> StillOurs(v)
    BY <2>1 DEF StillOurs, AtEnd, Current
  <2>3. \A v \in Workers : pc'[v] = "fenced" => ~StillOurs(v)
    BY <2>1, OneAttempt
  <2> QED
    BY <2>1, <2>2, <2>3 DEF UploaderOwns, NobodyUploads
<1> QED
  BY <1>1, <1>2, <1>3, <1>4, <1>5, <1>6, <1>7 DEF Effect

LEMMA InitIInv == Init => IInv
<1> SUFFICES ASSUME Init PROVE IInv
  OBVIOUS
<1>1. /\ run.next = 1 /\ run.status = "queued"
      /\ \A s \in Steps : /\ s \in Nat /\ s >= 1 /\ Untouched(s)
                          /\ step[s].status = "pending" /\ store[s] = "none"
                          /\ uploads[s] = 0
      /\ \A w \in Workers : pc[w] = "idle"
  BY ClaimFacts DEF Init, Untouched
<1>2. Typed /\ ClaimsApart /\ RunStands
  BY <1>1, InitTyped DEF ClaimsApart, RunStands
<1>3. PlanInOrder
  BY <1>1 DEF PlanInOrder
<1>4. AttemptInHand /\ Traced /\ UploaderOwns
  BY <1>1 DEF AttemptInHand, Traced, UploaderOwns, Untouched
<1>5. UncertainWriteHoldsTheRun
  BY <1>1 DEF UncertainWriteHoldsTheRun, Uncertain
<1> QED
  BY <1>2, <1>3, <1>4, <1>5 DEF IInv

LEMMA NextIInv == IInv /\ [Next]_vars => IInv'
<1> SUFFICES ASSUME IInv, [Next]_vars PROVE IInv'
  OBVIOUS
<1>1. Effect /\ Typed' /\ ClaimsApart'
  BY StepEffects, NextTyped, NextClaimsApart DEF IInv
<1> QED
  BY <1>1, NextRunStands, NextPlanInOrder, NextAttemptInHand, NextTraced,
     NextUncertain, NextUploaderOwns
     DEF IInv

\* The inductive invariant: a run, its plan, the attempt in hand and the traces of
\* its uploads agree, whoever holds the job.
THEOREM Inductive == Spec => []IInv
BY InitIInv, NextIInv, PTL DEF Spec

(***************************************************************************)
(* The properties.                                                         *)
(***************************************************************************)
\* The provider is asked to store a draft at most once, whatever dies, is taken
\* over, resumed or reconciled.
THEOREM UploadedOnce == Spec => []OneUploadPerDraft
<1>1. IInv => OneUploadPerDraft
  BY DEF IInv, Traced, OneUploadPerDraft
<1> QED
  BY <1>1, Inductive, PTL

\* An upload leaves its operation and the step's note of it behind.
THEOREM UploadsTraced == Spec => []UploadsLeaveATrace
<1>1. IInv => UploadsLeaveATrace
  BY DEF IInv, Traced, AttemptInHand, UploadsLeaveATrace
<1> QED
  BY <1>1, Inductive, PTL

\* A draft whose outcome is uncertain holds its run at its step.
THEOREM UncertainHolds == Spec => []UncertainWriteHoldsTheRun
<1>1. IInv => UncertainWriteHoldsTheRun
  BY DEF IInv
<1> QED
  BY <1>1, Inductive, PTL

\* A run goes past a proposal only on evidence of the person's decision.
THEOREM NextOnEvidence == Spec => []EvidenceBeforeNext
<1>1. ASSUME IInv, NEW s \in Steps
      PROVE  /\ s < run.next =>
                  step[s].status = "completed" /\ Evidence(s)
             /\ s > run.next => ~step[s].artifact /\ ~step[s].result
  BY <1>1 DEF IInv, PlanInOrder, Untouched
<1>2. IInv => EvidenceBeforeNext
  BY <1>1 DEF EvidenceBeforeNext, Evidence
<1> QED
  BY <1>2, Inductive, PTL

\* Nothing of a cancelled run moves, and no upload begins.
THEOREM CancelIsFinal == Spec => CancelStopsTheRun
<1>1. ASSUME IInv, [Next]_vars
      PROVE  run.status = "cancelled" => UNCHANGED <<runVars, uploads>>
  <2>1. SUFFICES ASSUME run.status = "cancelled" PROVE UNCHANGED <<runVars, uploads>>
    OBVIOUS
  <2>2. Effect
    BY <1>1, StepEffects
  <2>3. ~Ends /\ ~Stops /\ ~Advances /\ ~Requeues
    BY <2>1 DEF Ends, Stops, Advances, Requeues, Active, Final, Pauses
  <2>4. \A w \in Workers : ~Identifies(w) /\ ~Fences(w) /\ ~Uploads(w) /\ ~Accepts(w)
    BY <2>1 DEF Identifies, Fences, Uploads, Accepts, StillOurs, Active
  <2> QED
    BY <2>2, <2>3, <2>4 DEF Effect, Rests, runVars
<1> QED
  BY <1>1, Inductive, PTL DEF Spec, CancelStopsTheRun

\* The triggers' guards never have to refuse: an ended run and a completed step
\* stay, the run advances step by step, results stay, and only a run with every
\* step completed is completed.
THEOREM GuardsHold == Spec => GuardsNeverRefuse
<1>1. ASSUME IInv, IInv', [Next]_vars
      PROVE  /\ run.status \in Final => run' = run
             /\ run'.next # run.next =>
                   run'.next = run.next + 1 /\ step'[run.next].status = "completed"
             /\ \A s \in Steps :
                  /\ step[s].status = "completed" => step'[s] = step[s]
                  /\ step[s].result => step'[s].result
                  /\ step'[s].status = "completed" => step'[s].result
             /\ run'.status = "completed" =>
                   \A s \in Steps : step'[s].status = "completed"
  <2>T. Types /\ RunStands /\ PlanInOrder
    BY <1>1, TypeNames DEF IInv, Typed
  <2>N. /\ run.next \in Nat /\ \A s \in Steps : s \in Nat
        /\ \A s \in Steps : s = Current <=> s = run.next
    BY <2>T, NextNumbers
  <2>E. Effect
    BY <1>1, StepEffects
  <2>1. run.status \in Final => run' = run
    <3>1. SUFFICES ASSUME run.status \in {"completed", "cancelled"} PROVE run' = run
      BY <2>T DEF Final, RunStands
    <3>2. ~Ends /\ ~Stops /\ ~Advances /\ ~Requeues
      BY <3>1 DEF Ends, Stops, Advances, Requeues, Active, Final, Pauses
    <3>3. \A w \in Workers : ~Identifies(w)
      BY <3>1 DEF Identifies, Active
    <3> QED
      BY <2>E, <3>2, <3>3 DEF Effect, Rests, Fences, Uploads, Accepts
  <2>2. run'.next # run.next =>
           run'.next = run.next + 1 /\ step'[run.next].status = "completed"
    <3>1. Advances => run'.next = run.next + 1 /\ step'[run.next].status = "completed"
      BY DEF Advances, Current
    <3>2. ~Advances => run'.next = run.next
      BY <2>E DEF Effect, Rests, Ends, Stops, Requeues, Identifies, Fences, Uploads,
                  Accepts
    <3> QED
      BY <3>1, <3>2
  <2>3. \/ UNCHANGED step
        \/ /\ \A s \in Steps : s # Current => step'[s] = step[s]
           /\ Current \in Steps /\ step[Current].result => step'[Current].result
    <3>1. ASSUME NEW w \in Workers, Fences(w), Current \in Steps
          PROVE  step'[Current].result = step[Current].result
      BY <3>1, <2>T DEF Fences, Types, StepRow
    <3>2. ASSUME NEW w \in Workers, Fences(w)
          PROVE  \A s \in Steps : s # Current => step'[s] = step[s]
      BY <3>2 DEF Fences, Elsewhere
    <3>3. Rests \/ Ends \/ (\E w \in Workers : Uploads(w) \/ Accepts(w)) =>
             UNCHANGED step
      BY DEF Rests, Ends, Uploads, Accepts
    <3>4. Stops \/ Advances \/ Requeues \/ (\E w \in Workers : Identifies(w)) =>
             /\ \A s \in Steps : s # Current => step'[s] = step[s]
             /\ step[Current].result => step'[Current].result
      BY DEF Stops, Advances, Requeues, Identifies, Elsewhere
    <3> QED
      BY <2>E, <3>1, <3>2, <3>3, <3>4 DEF Effect
  <2>4. \A s \in Steps : step[s].status = "completed" => step'[s] = step[s]
    BY <2>3, <2>N, <2>T DEF PlanInOrder
  <2>5. \A s \in Steps : step[s].result => step'[s].result
    BY <2>3
  <2>6. \A s \in Steps : step'[s].status = "completed" => step'[s].result
    BY <1>1 DEF IInv, PlanInOrder
  <2>7. run'.status = "completed" => \A s \in Steps : step'[s].status = "completed"
    <3>1. run'.status = "completed" => \A s \in Steps : s < run'.next
      BY <1>1, ClaimFacts DEF IInv, RunStands
    <3> QED
      BY <1>1, <3>1 DEF IInv, PlanInOrder
  <2> QED
    BY <2>1, <2>2, <2>4, <2>5, <2>6, <2>7
<1> QED
  BY <1>1, Inductive, PTL DEF Spec, GuardsNeverRefuse
==============================================================================
