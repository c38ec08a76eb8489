----------------------------- MODULE FolderShares -----------------------------
(***************************************************************************)
(* One person and one cloud folder that several matters share with their   *)
(* assignees (matter_folder_shares.py, cloud_init.share_matter_folders and *)
(* the requests that call them): the assignments, one grant row per        *)
(* matter, the person's one direct permission at the provider, and the     *)
(* passes that share the folder or take the share back.                    *)
(*                                                                         *)
(* Every call to the provider is a step of its own, and so is every        *)
(* commit: between them other requests run.  A pass that shares several    *)
(* matters (a reactivation) holds the rows it has written until it         *)
(* commits; their row locks keep other writers out.                        *)
(*                                                                         *)
(* The provider is external: one direct permission per person and folder,  *)
(* a repeated invite is merged into it and never narrows it.  Rows of      *)
(* other people, folders and providers never meet these.                   *)
(***************************************************************************)
EXTENDS Naturals, FiniteSets

CONSTANTS
    Matters,      \* matters whose cloud_folder lists the folder
    RoleOf,       \* the role LawHand shares it with: own folder or context folder
    Sharers,      \* requests that share at the same time
    Removers,     \* requests and workers that take shares back at the same time
    MaxIds,       \* bound: permissions the provider ever makes
    MaxRequests,  \* bound: assignments, departures and re-shares
    MaxFaults     \* bound: requests and workers that die

Roles == {"read", "write"}
NoMatter == "no matter"
All == "all"                     \* the scope of a person's job and of the sweep

ASSUME SharesAssumption ==
    /\ NoMatter \notin Matters /\ RoleOf \in [Matters -> Roles]
    /\ MaxIds \in Nat \ {0} /\ MaxRequests \in Nat /\ MaxFaults \in Nat

VARIABLES
    assigned,    \* matters with a MatterAssignment of the person
    active,      \* User.is_active
    grant,       \* [Matters -> matter_folder_share_grants row]
    share,       \* the person's direct permission at the provider
    ids,         \* permissions the provider has made
    sharer,      \* [Sharers -> a pass of share_matter_folders]
    remover,     \* [Removers -> a run of process_pending_revocations]
    queued,      \* scopes whose unshare job is pending
    requests, faults,  \* bounded by MaxRequests, MaxFaults
    ours,        \* permissions that exist because LawHand invited
    raced,       \* matters left while a pass or a run was working on them
    doubtful,    \* matters whose row need not tell of the share any more, from
                 \* what went wrong with it to their next invite
    keeper       \* the matter whose leaving must take the share back: of the
                 \* latest invite, or the one a removal was left to

people == <<assigned, active>>
work == <<sharer, remover>>
bounds == <<requests, faults>>
history == <<ours, raced, doubtful, keeper>>
vars == <<people, grant, share, ids, work, queued, bounds, history>>

Scopes == Matters \cup {All}
Covers(scope, m) == scope \in {All, m}

NoShare == [id |-> 0, role |-> "none"]
Unreadable == [id |-> 0, role |-> "unreadable"]    \* the listing failed
NoGrant == [status |-> "absent", origin |-> "none", id |-> 0]
NoPass == [pc |-> "idle", todo |-> {}, matter |-> NoMatter, seen |-> NoShare,
           id |-> 0, held |-> [m \in Matters |-> NoGrant]]
NoRun == [pc |-> "idle", scope |-> All, job |-> FALSE, at |-> NoMatter,
          id |-> [m \in Matters |-> 0], out |-> [m \in Matters |-> "none"],
          back |-> FALSE]

Entitled(m) == active /\ m \in assigned
Held(s, m) == sharer[s].held[m] # NoGrant
Locked(m) == \E s \in Sharers : Held(s, m)
Pending(m) == grant[m].status = "revoke_pending"

\* A pass or a run that has to do with m and has not ended.
InHand(m) ==
    \/ \E s \in Sharers : m \in sharer[s].todo \cup {sharer[s].matter} \/ Held(s, m)
    \/ \E r \in Removers : remover[r].out[m] # "none"

Request == requests < MaxRequests /\ requests' = requests + 1

(***************************************************************************)
(* Requests that share.                                                    *)
(***************************************************************************)

\* The commit is followed by a pass, unless the request dies first.
Shares(ms) ==
    \/ UNCHANGED sharer
    \/ \E s \in Sharers :
          /\ sharer[s] = NoPass /\ ms # {}
          /\ sharer' = [sharer EXCEPT ![s].pc = "list", ![s].todo = ms]

\* What a run decided before the person was entitled again is out of date.
ComesBack == remover' = [r \in Removers |->
                            [remover[r] EXCEPT !.back = @ \/ remover[r].pc = "remove"]]

\* add_assignment: nothing is shared with a deactivated person.
Assign(m) ==
    /\ Request /\ m \notin assigned
    /\ assigned' = assigned \cup {m}
    /\ IF active THEN Shares({m}) /\ ComesBack ELSE UNCHANGED work
    /\ UNCHANGED <<active, grant, share, ids, queued, faults, history>>

\* reactivate_user, share_user_matter_folders.
Reactivate ==
    /\ Request /\ ~active
    /\ active' = TRUE
    /\ Shares(assigned)
    /\ IF assigned # {} THEN ComesBack ELSE UNCHANGED remover
    /\ UNCHANGED <<assigned, grant, share, ids, queued, faults, history>>

\* The folder is provisioned or linked again and shared with every assignee.
ShareAgain(m) ==
    /\ Request /\ Entitled(m)
    /\ Shares({m})
    /\ UNCHANGED <<people, grant, share, ids, remover, queued, faults, history>>

(***************************************************************************)
(* One pass of share_matter_folders per matter: list, invite, record.      *)
(***************************************************************************)
Turn(s) == IF sharer[s].todo = {} THEN "commit" ELSE "list"
NextMatter(s) == sharer' = [sharer EXCEPT ![s].pc = Turn(s), ![s].matter = NoMatter,
                                          ![s].seen = NoShare, ![s].id = 0]

ListShares(s) ==
    /\ sharer[s].pc = "list"
    /\ \E m \in sharer[s].todo, seen \in {share, Unreadable} :
          sharer' = [sharer EXCEPT ![s].pc = "invite", ![s].todo = @ \ {m},
                                   ![s].matter = m, ![s].seen = seen]
    /\ UNCHANGED <<people, grant, share, ids, remover, queued, bounds, history>>

\* No token for the provider, or it refuses: nothing is recorded.
NotShared(s) ==
    /\ sharer[s].pc = "invite"
    /\ NextMatter(s)
    /\ UNCHANGED <<people, grant, share, ids, remover, queued, bounds, history>>

Merged(m) == [id |-> IF share = NoShare THEN ids + 1 ELSE share.id,
              role |-> IF "write" \in {share.role, RoleOf[m]} THEN "write" ELSE "read"]

\* The provider invites; the answer may lack the id, or be lost (id Lost).
Lost == MaxIds + 1

Invite(s) ==
    /\ sharer[s].pc = "invite"
    /\ LET made == Merged(sharer[s].matter) IN
       /\ made.id <= MaxIds
       /\ share' = made
       /\ ids' = IF share = NoShare THEN made.id ELSE ids
       /\ ours' = IF share = NoShare THEN ours \cup {made.id} ELSE ours
       /\ keeper' = sharer[s].matter /\ doubtful' = doubtful \ {keeper'}
       /\ \E answer \in {made.id, 0, Lost} :
             sharer' = [sharer EXCEPT ![s].pc = "record", ![s].id = answer]
    /\ UNCHANGED <<people, grant, remover, queued, bounds, raced>>

\* Whose permission the invite answered with.
Origin(row, seen, id, role) ==
    IF id # 0 /\ row.id = id /\ row.status \in {"active", "revoke_pending", "kept"}
    THEN row.origin
    ELSE IF seen = Unreadable \/ (id # 0 /\ id # seen.id)
    THEN IF id # 0 THEN "lawhand" ELSE "legacy"
    ELSE IF id # 0
    THEN IF seen.role = role THEN "lawhand" ELSE "preexisting"
    ELSE IF seen = NoShare \/ seen.role = role THEN "legacy" ELSE "preexisting"

\* record_folder_grants: the newer share overwrites whatever the row said.
Record(s) ==
    /\ sharer[s].pc = "record" /\ sharer[s].id # Lost
    /\ LET m == sharer[s].matter
           origin == Origin(grant[m], sharer[s].seen, sharer[s].id, RoleOf[m])
           id == IF sharer[s].id = 0 /\ origin = "preexisting"
                 THEN sharer[s].seen.id ELSE sharer[s].id
       IN /\ ~Locked(m)
          /\ sharer' = [sharer EXCEPT ![s].pc = Turn(s), ![s].matter = NoMatter,
                           ![s].seen = NoShare, ![s].id = 0,
                           ![s].held[m] = [status |-> "active", origin |-> origin,
                                           id |-> id]]
    /\ UNCHANGED <<people, grant, share, ids, remover, queued, bounds, history>>

LostInvites(s) == {m \in Matters : \/ Held(s, m)
                                   \/ sharer[s].matter = m /\ sharer[s].pc = "record"}
Unrecorded(ms) == doubtful' = doubtful \cup {m \in ms : grant[m] # NoGrant}

\* The answer was an error or never came: the folder is skipped.
InviteUnanswered(s) ==
    /\ sharer[s].pc = "record" /\ sharer[s].id = Lost
    /\ Unrecorded({sharer[s].matter})
    /\ NextMatter(s)
    /\ UNCHANGED <<people, grant, share, ids, remover, queued, bounds, ours, raced,
                   keeper>>

\* At the end of the pass, or when a token refresh commits in the middle of it.
CommitShares(s) ==
    /\ \/ sharer[s].pc = "commit"
       \/ sharer[s].pc = "list" /\ \E m \in Matters : Held(s, m)
    /\ grant' = [m \in Matters |-> IF Held(s, m) THEN sharer[s].held[m] ELSE grant[m]]
    /\ sharer' = IF sharer[s].pc = "commit" THEN [sharer EXCEPT ![s] = NoPass]
                 ELSE [sharer EXCEPT ![s].held = NoPass.held]
    \* an answer from before the share was taken back and made again
    /\ doubtful' = doubtful \cup {m \in Matters : /\ Held(s, m)
                                                 /\ grant'[m].id \notin {0, share.id}}
    /\ UNCHANGED <<people, share, ids, remover, queued, bounds, ours, raced, keeper>>

PassDies(s) ==
    /\ sharer[s].pc # "idle"
    /\ faults < MaxFaults /\ faults' = faults + 1
    /\ Unrecorded(LostInvites(s))
    /\ sharer' = [sharer EXCEPT ![s] = NoPass]
    /\ UNCHANGED <<people, grant, share, ids, remover, queued, requests, ours, raced,
                   keeper>>

(***************************************************************************)
(* Leaving a matter.                                                       *)
(***************************************************************************)

\* Mutant: folders without a row are not looked at.
MarkedRecorded(m) ==
    IF grant[m].status # "active" THEN grant[m]
    ELSE [grant[m] EXCEPT !.status = IF grant[m].origin = "preexisting" THEN "kept"
                                     ELSE "revoke_pending"]

\* request_share_revocation on one row; a folder without one gets a legacy row.
Marked(m) ==
    IF grant[m] = NoGrant
    THEN [status |-> "revoke_pending", origin |-> "legacy", id |-> 0]
    ELSE IF grant[m].status # "active" THEN grant[m]
    ELSE [grant[m] EXCEPT !.status = IF grant[m].origin = "preexisting" THEN "kept"
                                     ELSE "revoke_pending"]

\* enqueue_job leaves a row alone that is pending or running already.
Enqueue(scope) ==
    queued' = IF \E r \in Removers : remover[r].job /\ remover[r].scope = scope
              THEN queued ELSE queued \cup {scope}

\* process_pending_revocations: the rows as they are when the run begins.
Begun(rows, scope, job) ==
    LET found == {m \in Matters : Covers(scope, m) /\ rows[m].status = "revoke_pending"}
    IN [pc |-> "check", scope |-> scope, job |-> job, at |-> NoMatter, back |-> FALSE,
        id |-> [m \in Matters |-> IF m \in found THEN rows[m].id ELSE 0],
        out |-> [m \in Matters |-> IF m \in found THEN "todo" ELSE "none"]]

\* The rows are marked in the transaction that ends the entitlement; a run
\* follows its commit, unless the request dies first.
Depart(ms, scope) ==
    LET marked == [m \in Matters |-> IF m \in ms THEN Marked(m) ELSE grant[m]]
        pending == \E m \in ms : marked[m] # grant[m] /\ marked[m].status = "revoke_pending"
    IN /\ \A m \in ms : ~Locked(m)
       /\ grant' = marked
       /\ IF pending
          THEN /\ Enqueue(scope)
               /\ \/ UNCHANGED remover
                  \/ \E r \in Removers :
                        /\ remover[r] = NoRun
                        /\ remover' = [remover EXCEPT ![r] = Begun(marked, scope, FALSE)]
          ELSE UNCHANGED <<queued, remover>>
       /\ raced' = (raced \ ms) \cup {m \in ms : InHand(m)}
       /\ doubtful' = doubtful \cup {m \in ms : InHand(m)}
       /\ UNCHANGED keeper

\* remove_assignment.
Unassign(m) ==
    /\ Request /\ m \in assigned
    /\ assigned' = assigned \ {m}
    /\ Depart({m}, m)
    /\ UNCHANGED <<active, share, ids, sharer, faults, ours>>

\* deactivate_user: their assignments stay.
Deactivate ==
    /\ Request /\ active
    /\ active' = FALSE
    /\ Depart(assigned \cup {m \in Matters : grant[m].status = "active"}, All)
    /\ UNCHANGED <<assigned, share, ids, sharer, faults, ours>>

(***************************************************************************)
(* Taking shares back: process_pending_revocations and what retries it.    *)
(***************************************************************************)
StartJob(r, scope) ==
    /\ remover[r] = NoRun /\ scope \in queued
    /\ queued' = queued \ {scope}
    /\ remover' = [remover EXCEPT ![r] = Begun(grant, scope, TRUE)]
    /\ UNCHANGED <<people, grant, share, ids, sharer, bounds, history>>

\* Mutant: the sweep only looks for shares LawHand recorded itself.
SweepRecorded ==
    /\ \E m \in Matters : Pending(m) /\ grant[m].origin = "lawhand"
    /\ All \notin queued /\ Enqueue(All)
    /\ UNCHANGED <<people, grant, share, ids, work, bounds, history>>

\* enqueue_stale_unshare_jobs.
Sweep ==
    /\ \E m \in Matters : Pending(m)
    /\ All \notin queued /\ Enqueue(All)
    /\ UNCHANGED <<people, grant, share, ids, work, bounds, history>>

\* Mutant: only the rows of other matters are asked, not their assignments.
NeededElsewhereByRow(m) == \E n \in Matters \ {m} : grant[n].status = "active"

\* _shared_by_another_matter.
NeededElsewhere(m) ==
    \E n \in Matters \ {m} : grant[n].status = "active" \/ Entitled(n)

\* Mutant: an account that is switched off still counts.
StillAssigned(m) == m \in assigned

\* _still_entitled.
StillEntitled(m) == Entitled(m)

\* The row of m would take the share back, or no row is there yet.
Tells(m) == \/ grant[m] = NoGrant
            \/ /\ grant[m].status \in {"active", "revoke_pending"}
               /\ grant[m].id \in {0, share.id}

\* The removal is left to a matter that needs the share.
LeaveTo(n) == /\ keeper' = n
              /\ doubtful' = IF Tells(n) THEN doubtful ELSE doubtful \cup {n}

\* Both questions for one pending row.
Check(r) ==
    /\ remover[r].pc = "check"
    /\ \E m \in Matters :
          /\ remover[r].out[m] = "todo"
          /\ remover' =
                IF StillEntitled(m) THEN [remover EXCEPT ![r].out[m] = "restored"]
                ELSE IF NeededElsewhere(m) THEN [remover EXCEPT ![r].out[m] = "released"]
                ELSE [remover EXCEPT ![r].pc = "remove", ![r].at = m]
          /\ IF remover'[r].out[m] = "released" /\ m = keeper
             THEN \E n \in Matters \ {m} :
                     (grant[n].status = "active" \/ Entitled(n)) /\ LeaveTo(n)
             ELSE UNCHANGED <<doubtful, keeper>>
    /\ UNCHANGED <<people, grant, share, ids, sharer, queued, bounds, ours, raced>>

Checked(r, m, outcome) ==
    remover' = [remover EXCEPT ![r].pc = "check", ![r].at = NoMatter,
                               ![r].back = FALSE, ![r].out[m] = outcome]

\* The stored id, or for a row without one the person's share with that role.
Removable(r, m) ==
    /\ share # NoShare
    /\ IF remover[r].id[m] # 0 THEN remover[r].id[m] = share.id
       ELSE share.role = RoleOf[m]

\* _remove_from_provider; a permission that is already gone counts as done.
Remove(r) ==
    /\ remover[r].pc = "remove"
    /\ LET m == remover[r].at IN
       /\ share' = IF Removable(r, m) THEN NoShare ELSE share
       /\ Checked(r, m, "revoked")
    /\ UNCHANGED <<people, grant, ids, sharer, queued, bounds, history>>

\* No token, an error, or no answer to a removal that was made.
RemoveFails(r) ==
    /\ remover[r].pc = "remove"
    /\ faults < MaxFaults /\ faults' = faults + 1
    /\ LET m == remover[r].at IN
       /\ share' \in {share, IF Removable(r, m) THEN NoShare ELSE share}
       /\ Checked(r, m, "failed")
    /\ UNCHANGED <<people, grant, ids, sharer, queued, requests, history>>

\* Mutant: the outcome's name is written as the status.
OutcomeVerbatim(row, outcome) ==
    IF row.status # "revoke_pending" \/ outcome \in {"none", "failed"} THEN row
    ELSE [row EXCEPT !.status = outcome]

\* Only a row that is still pending takes the outcome.
Outcome(row, outcome) ==
    IF row.status # "revoke_pending" \/ outcome \in {"none", "failed"} THEN row
    ELSE [row EXCEPT !.status = IF outcome = "restored" THEN "active" ELSE "revoked"]

\* Rows are read again, outcomes applied and committed.  A job with a failed
\* row fails: it is retried, or out of attempts.
Apply(r) ==
    /\ remover[r].pc = "check" /\ \A m \in Matters : remover[r].out[m] # "todo"
    /\ \A m \in Matters : remover[r].out[m] # "none" => ~Locked(m)
    /\ grant' = [m \in Matters |-> Outcome(grant[m], remover[r].out[m])]
    /\ LET failed == \E m \in Matters : Pending(m) /\ remover[r].out[m] = "failed"
       IN \/ remover[r].job /\ failed /\ queued' = queued \cup {remover[r].scope}
          \/ UNCHANGED queued
    /\ remover' = [remover EXCEPT ![r] = NoRun]
    \* an earlier departure's outcome, and the person is back
    /\ doubtful' = doubtful \cup {m \in Matters : /\ Entitled(m) /\ Pending(m)
                                                 /\ grant'[m].status = "revoked"}
    /\ UNCHANGED <<people, share, ids, sharer, bounds, ours, raced, keeper>>

\* A worker's lease expires and its job is claimed again; a request is gone.
RunDies(r) ==
    /\ remover[r].pc # "idle"
    /\ faults < MaxFaults /\ faults' = faults + 1
    /\ queued' = IF remover[r].job THEN queued \cup {remover[r].scope} ELSE queued
    /\ remover' = [remover EXCEPT ![r] = NoRun]
    /\ UNCHANGED <<people, grant, share, ids, sharer, requests, history>>

------------------------------------------------------------------------------
\* Nobody is assigned yet; someone may have shared the folder with them.
Init ==
    /\ assigned = {} /\ active = TRUE
    /\ grant = [m \in Matters |-> NoGrant]
    /\ share \in {NoShare} \cup [id : {1}, role : Roles]
    /\ ids = share.id
    /\ sharer = [s \in Sharers |-> NoPass]
    /\ remover = [r \in Removers |-> NoRun]
    /\ queued = {}
    /\ requests = 0 /\ faults = 0
    /\ ours = {} /\ raced = {} /\ doubtful = {} /\ keeper = NoMatter

RequestStep == \/ \E m \in Matters : Assign(m) \/ ShareAgain(m) \/ Unassign(m)
               \/ Reactivate \/ Deactivate

PassStep(s) == \/ ListShares(s) \/ NotShared(s) \/ Invite(s) \/ Record(s)
               \/ InviteUnanswered(s) \/ CommitShares(s)

RunStep(r) == \/ \E scope \in Scopes : StartJob(r, scope)
              \/ Check(r) \/ Remove(r) \/ Apply(r)

Next == \/ RequestStep \/ Sweep
        \/ \E s \in Sharers : PassStep(s) \/ PassDies(s)
        \/ \E r \in Removers : RunStep(r) \/ RemoveFails(r) \/ RunDies(r)

Spec == Init /\ [][Next]_vars

\* Requests end, workers keep polling, the sweep is hourly.  RemoveFails is
\* bounded: the provider answers in the end.
FairSpec == /\ Spec
            /\ WF_vars(Sweep)
            /\ \A s \in Sharers : WF_vars(PassStep(s))
            /\ \A r \in Removers : WF_vars(RunStep(r))

------------------------------------------------------------------------------
(***************************************************************************)
(* Properties.                                                             *)
(***************************************************************************)
Ids == 0..MaxIds
ShareType == {NoShare} \cup [id : Ids, role : Roles]
GrantType == [status : {"absent", "active", "revoke_pending", "revoked", "kept"},
              origin : {"none", "lawhand", "legacy", "preexisting"}, id : Ids]
PassType == [pc : {"idle", "list", "invite", "record", "commit"},
             todo : SUBSET Matters, matter : Matters \cup {NoMatter},
             seen : ShareType \cup {Unreadable}, id : Ids \cup {Lost},
             held : [Matters -> GrantType]]
RunType == [pc : {"idle", "check", "remove"}, scope : Scopes, job : BOOLEAN,
            at : Matters \cup {NoMatter}, id : [Matters -> Ids],
            out : [Matters -> {"none", "todo", "restored", "released", "failed",
                               "revoked"}],
            back : BOOLEAN]

\* Rows, passes and runs are in states the code knows.
TypeOK ==
    /\ assigned \subseteq Matters /\ active \in BOOLEAN
    /\ grant \in [Matters -> GrantType] /\ share \in ShareType /\ ids \in Ids
    /\ sharer \in [Sharers -> PassType] /\ remover \in [Removers -> RunType]
    /\ queued \subseteq Scopes
    /\ requests \in 0..MaxRequests /\ faults \in 0..MaxFaults
    /\ ours \subseteq Ids /\ raced \subseteq Matters
    /\ doubtful \subseteq Matters /\ keeper \in Matters \cup {NoMatter}

\* Nothing is in flight.
Quiet == /\ \A s \in Sharers : sharer[s] = NoPass
         /\ \A r \in Removers : remover[r] = NoRun

\* A grant outlives the person's place on the matter only when they left while
\* a share pass or a removal run was working on that matter's row (the rows
\* are marked "in this transaction so the removal is as durable as the
\* unassign", matters.py:1906).
StrayGrantWasRaced ==
    \A m \in Matters :
        grant[m].status = "active" /\ ~Entitled(m) => m \in raced

\* What the row of m is for is not the share that is there: it keeps it as
\* someone else's, or looks for one with its own role.
Mistaken(m) == \/ grant[m].origin = "preexisting" /\ grant[m].id = share.id
               \/ grant[m].origin = "legacy" /\ RoleOf[m] # share.role

\* When the last matter is left and nothing is pending any more, what LawHand
\* shared is gone, unless the one matter whose leaving had to take it back was
\* left in a race, has a row in doubt, or one that is about someone else's share.
LastLeaverLosesAccess ==
    Quiet /\ (\A m \in Matters : ~Entitled(m) /\ ~Pending(m)) /\ share.id \in ours
    => keeper \in raced \cup doubtful \/ Mistaken(keeper)

\* A removal is only sent for a person who, when it was decided, was entitled
\* to the folder through no matter, recorded or not ("A folder another matter
\* still shares with the person is not removed", CHANGELOG.md:42).
RemovalWasDue ==
    \A r \in Removers :
        remover[r].pc = "remove" /\ (\E m \in Matters : Entitled(m)) => remover[r].back

\* A removal that was asked for is made, or found not to be due any more: the
\* job is retried and the sweep queues it again ("a durable job retries it
\* until it succeeds").
PendingEnds == \A m \in Matters : Pending(m) ~> ~Pending(m)
==============================================================================
