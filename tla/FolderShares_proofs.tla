-------------------------- MODULE FolderShares_proofs --------------------------
(***************************************************************************)
(* Theorems about FolderShares, for any matters, passes and runs, and any  *)
(* bound on permissions, requests and faults.                              *)
(***************************************************************************)
EXTENDS FolderShares, TLAPS

(***************************************************************************)
(* The inductive invariant.                                                *)
(***************************************************************************)
\* A pass s that has yet to list, invite, record or commit m.
Works(s, m) == m \in sharer[s].todo \cup {sharer[s].matter} \/ Held(s, m)

\* An invite for m that is not committed to its row yet.
Invited(m) == \E s \in Sharers : \/ sharer[s].pc = "record" /\ sharer[s].matter = m
                                 \/ Held(s, m)

\* Passes and runs stand at a matter; the rows a pass holds are active ones.
Placed ==
    /\ \A s \in Sharers :
        /\ sharer[s].pc \in {"invite", "record"} => sharer[s].matter \in Matters
        /\ \A m \in Matters : Held(s, m) => sharer[s].held[m].status = "active"
    /\ \A r \in Removers : remover[r].pc = "remove" =>
          remover[r].at \in Matters /\ remover[r].out[remover[r].at] = "todo"

\* Who is on no matter, and did not leave it under way, has nothing there that
\* could become a grant.
LeftBehind ==
    \A m \in Matters : ~Entitled(m) /\ m \notin raced =>
        /\ grant[m].status # "active"
        /\ \A s \in Sharers : ~Works(s, m)
        /\ \A r \in Removers : remover[r].out[m] # "restored"

\* Without a row the person is still on the matter, and no run has to do with it.
RowOnLeaving ==
    \A m \in Matters : grant[m] = NoGrant =>
        /\ Entitled(m) \/ (m # keeper /\ \A s \in Sharers : ~Works(s, m))
        /\ \A r \in Removers : remover[r].out[m] = "none"

\* A row without a permission's id is a legacy one.
LegacyOrNamed(row) == row.id = 0 => row = NoGrant \/ row.origin = "legacy"

RowsAreNamed ==
    /\ \A m \in Matters : LegacyOrNamed(grant[m])
    /\ \A s \in Sharers, m \in Matters : LegacyOrNamed(sharer[s].held[m])

\* Every share has an id, those that LawHand made too.
SharesAreNamed ==
    /\ 0 \notin ours /\ (share.id = 0 => share = NoShare)
    /\ \A s \in Sharers :
          sharer[s].seen.id = 0 => sharer[s].seen \in {NoShare, Unreadable}

\* A run removes the permission its row names, unless something went wrong with
\* the row since it began.
RunsKnowTheRow ==
    \A r \in Removers, m \in Matters :
        remover[r].out[m] # "none" /\ Pending(m) /\ m \notin doubtful /\ ~Invited(m)
        => remover[r].id[m] = grant[m].id

\* No run has decided about m, or it only failed.
Undecided(m) == \A r \in Removers : remover[r].out[m] \in {"none", "todo", "failed"}

\* Somebody's leaving will take LawHand's share back.
KeeperTells ==
    share.id \in ours =>
        /\ keeper \in Matters
        /\ \/ keeper \in doubtful \/ Mistaken(keeper) \/ Invited(keeper)
           \/ /\ Tells(keeper)
              /\ Pending(keeper) => Entitled(keeper) \/ Undecided(keeper)

IInv == /\ TypeOK /\ Placed /\ LeftBehind /\ RowOnLeaving /\ RowsAreNamed
        /\ SharesAreNamed /\ RunsKnowTheRow /\ KeeperTells /\ RemovalWasDue

(***************************************************************************)
(* What the operators of the model write.                                  *)
(***************************************************************************)
LEMMA Nothing ==
    /\ MaxIds \in Nat \ {0} /\ MaxRequests \in Nat /\ MaxFaults \in Nat
    /\ NoMatter \notin Matters /\ RoleOf \in [Matters -> Roles]
    /\ 0 \in Ids /\ Lost \notin Ids /\ Lost \in Nat
    /\ NoShare \in ShareType /\ NoShare.id = 0 /\ Unreadable \notin ShareType
    /\ NoGrant \in GrantType /\ NoGrant.status = "absent" /\ NoGrant.id = 0
    /\ NoGrant.origin = "none"
<1>1. /\ MaxIds \in Nat \ {0} /\ MaxRequests \in Nat /\ MaxFaults \in Nat
      /\ NoMatter \notin Matters /\ RoleOf \in [Matters -> Roles]
  BY SharesAssumption
<1>2. 0 \in Ids /\ Lost \notin Ids /\ Lost \in Nat
  BY <1>1 DEF Ids, Lost
<1>3. NoShare \in ShareType /\ NoShare.id = 0
  BY DEF NoShare, ShareType
<1>4. Unreadable \notin ShareType
  BY DEF Unreadable, NoShare, ShareType, Roles
<1>5. /\ NoGrant \in GrantType /\ NoGrant.status = "absent" /\ NoGrant.id = 0
      /\ NoGrant.origin = "none"
  BY <1>2 DEF NoGrant, GrantType
<1> QED
  BY <1>1, <1>2, <1>3, <1>4, <1>5

LEMMA NoPassFacts ==
    /\ NoPass \in PassType /\ NoPass.pc = "idle" /\ NoPass.todo = {}
    /\ NoPass.matter = NoMatter /\ NoPass.seen = NoShare
    /\ \A m \in Matters : NoPass.held[m] = NoGrant
<1>1. [m \in Matters |-> NoGrant] \in [Matters -> GrantType]
  BY Nothing
<1> QED
  BY <1>1, Nothing DEF NoPass, PassType

LEMMA NoRunFacts ==
    /\ NoRun \in RunType /\ NoRun.pc = "idle"
    /\ \A m \in Matters : NoRun.out[m] = "none"
<1>1. /\ [m \in Matters |-> 0] \in [Matters -> Ids]
      /\ [m \in Matters |-> "none"] \in [Matters -> {"none", "todo", "restored",
                                         "released", "failed", "revoked"}]
  BY Nothing
<1>2. NoRun \in RunType
  BY <1>1 DEF NoRun, RunType, Scopes
<1> QED
  BY <1>2 DEF NoRun

\* A pass begins for the matters it is asked to share, or none does.
LEMMA SharesWrites ==
    ASSUME TypeOK, NEW ms \in SUBSET Matters, Shares(ms)
    PROVE  /\ sharer' \in [Sharers -> PassType]
           /\ \A s \in Sharers :
                 \/ sharer'[s] = sharer[s]
                 \/ /\ sharer[s] = NoPass /\ sharer'[s].pc = "list"
                    /\ sharer'[s].todo = ms /\ sharer'[s].matter = NoMatter
                    /\ sharer'[s].held = NoPass.held /\ sharer'[s].seen = NoShare
<1>1. CASE UNCHANGED sharer
  BY <1>1 DEF TypeOK
<1>2. ASSUME NEW s \in Sharers, sharer[s] = NoPass,
             sharer' = [sharer EXCEPT ![s].pc = "list", ![s].todo = ms]
      PROVE  /\ sharer' \in [Sharers -> PassType]
             /\ \A v \in Sharers :
                 \/ sharer'[v] = sharer[v]
                 \/ /\ sharer[v] = NoPass /\ sharer'[v].pc = "list"
                    /\ sharer'[v].todo = ms /\ sharer'[v].matter = NoMatter
                    /\ sharer'[v].held = NoPass.held /\ sharer'[v].seen = NoShare
  <2> DEFINE pass == [NoPass EXCEPT !.pc = "list", !.todo = ms]
  <2>1. /\ pass \in PassType /\ pass.pc = "list" /\ pass.todo = ms
        /\ pass.matter = NoMatter /\ pass.held = NoPass.held
        /\ pass.seen = NoShare
    BY NoPassFacts DEF PassType
  <2>2. sharer' = [sharer EXCEPT ![s] = pass]
    BY <1>2, NoPassFacts DEF TypeOK, PassType
  <2> HIDE DEF pass
  <2> QED
    BY <1>2, <2>1, <2>2 DEF TypeOK
<1> QED
  BY <1>1, <1>2 DEF Shares

\* What stays of the runs when the person is back.
RunsStay == \A r \in Removers :
    /\ remover'[r].pc = remover[r].pc /\ remover'[r].at = remover[r].at
    /\ remover'[r].id = remover[r].id /\ remover'[r].out = remover[r].out

LEMMA ComesBackWrites ==
    ASSUME TypeOK, ComesBack
    PROVE  /\ remover' \in [Removers -> RunType] /\ RunsStay
           /\ \A r \in Removers :
                 remover'[r].back = (remover[r].back \/ remover[r].pc = "remove")
<1>1. ASSUME NEW r \in Removers
      PROVE  /\ remover'[r] \in RunType
             /\ remover'[r].pc = remover[r].pc /\ remover'[r].at = remover[r].at
             /\ remover'[r].id = remover[r].id /\ remover'[r].out = remover[r].out
             /\ remover'[r].back = (remover[r].back \/ remover[r].pc = "remove")
  <2> DEFINE b == remover[r].back \/ remover[r].pc = "remove"
  <2>1. remover[r] \in RunType /\ b \in BOOLEAN
    BY DEF TypeOK
  <2>2. remover'[r] = [remover[r] EXCEPT !.back = b]
    BY DEF ComesBack
  <2> HIDE DEF b
  <2>3. /\ remover'[r] \in RunType
        /\ remover'[r].pc = remover[r].pc /\ remover'[r].at = remover[r].at
        /\ remover'[r].id = remover[r].id /\ remover'[r].out = remover[r].out
        /\ remover'[r].back = b
    BY <2>1, <2>2 DEF RunType
  <2> QED
    BY <2>3 DEF b
<1> QED
  BY <1>1 DEF ComesBack, RunsStay

(***************************************************************************)
(* What a step of a pass writes.                                           *)
(***************************************************************************)
LEMMA PassBecomes ==
    ASSUME TypeOK, NEW s \in Sharers, NEW pass \in PassType,
           sharer' = [sharer EXCEPT ![s] = pass]
    PROVE  /\ sharer' \in [Sharers -> PassType] /\ sharer'[s] = pass
           /\ \A v \in Sharers \ {s} : sharer'[v] = sharer[v]
BY DEF TypeOK

\* An invite for m by the pass s that is not committed yet.
InvitedBy(s, m) == \/ sharer[s].pc = "record" /\ sharer[s].matter = m
                   \/ Held(s, m)

\* Only s moves, and stays at a matter when it is about to invite or to record.
OnlyPass(s) ==
    /\ sharer' \in [Sharers -> PassType]
    /\ \A v \in Sharers \ {s} : sharer'[v] = sharer[v]
    /\ sharer'[s].pc \in {"invite", "record"} => sharer'[s].matter \in Matters

LEMMA ListSharesWrites ==
    ASSUME TypeOK, NEW s \in Sharers, ListShares(s)
    PROVE  /\ OnlyPass(s) /\ sharer[s].pc = "list" /\ sharer'[s].pc = "invite"
           /\ sharer'[s].todo \cup {sharer'[s].matter} \subseteq sharer[s].todo
           /\ sharer'[s].held = sharer[s].held
           /\ sharer'[s].seen \in {share, Unreadable}
<1>1. PICK m \in sharer[s].todo, seen \in {share, Unreadable} :
          sharer' = [sharer EXCEPT ![s].pc = "invite", ![s].todo = @ \ {m},
                                   ![s].matter = m, ![s].seen = seen]
  BY DEF ListShares
<1>2. sharer[s] \in PassType /\ m \in Matters /\ seen \in ShareType \cup {Unreadable}
  BY DEF TypeOK, PassType
<1> DEFINE pass == [pc |-> "invite", todo |-> sharer[s].todo \ {m}, matter |-> m,
                    seen |-> seen, id |-> sharer[s].id, held |-> sharer[s].held]
<1>3. pass \in PassType
  BY <1>2 DEF PassType
<1>4. sharer' = [sharer EXCEPT ![s] = pass]
  BY <1>1, <1>2 DEF TypeOK, PassType
<1>5. /\ pass.pc = "invite" /\ pass.matter = m /\ pass.todo = sharer[s].todo \ {m}
      /\ pass.held = sharer[s].held /\ pass.seen = seen
  OBVIOUS
<1> HIDE DEF pass
<1> QED
  BY <1>2, <1>3, <1>4, <1>5, PassBecomes DEF OnlyPass, ListShares

LEMMA NextMatterWrites ==
    ASSUME TypeOK, NEW s \in Sharers, NextMatter(s)
    PROVE  /\ OnlyPass(s) /\ sharer'[s].pc \in {"list", "commit"}
           /\ sharer'[s].todo = sharer[s].todo /\ sharer'[s].matter = NoMatter
           /\ sharer'[s].held = sharer[s].held /\ sharer'[s].seen = NoShare
<1>1. sharer[s] \in PassType /\ Turn(s) \in {"list", "commit"}
  BY DEF TypeOK, Turn
<1> DEFINE pass == [sharer[s] EXCEPT !.pc = Turn(s), !.matter = NoMatter,
                                     !.seen = NoShare, !.id = 0]
<1>2. /\ pass \in PassType
      /\ pass.pc = Turn(s) /\ pass.matter = NoMatter /\ pass.todo = sharer[s].todo
      /\ pass.held = sharer[s].held /\ pass.seen = NoShare
  BY <1>1, Nothing DEF PassType
<1>3. sharer' = [sharer EXCEPT ![s] = pass]
  BY DEF TypeOK, NextMatter
<1> HIDE DEF pass
<1> QED
  BY <1>1, <1>2, <1>3, PassBecomes DEF OnlyPass

\* The invite gives the share an id LawHand knows, and the pass an answer.
LEMMA InviteWrites ==
    ASSUME TypeOK, SharesAreNamed, NEW s \in Sharers, Invite(s),
           sharer[s].matter \in Matters
    PROVE  /\ OnlyPass(s) /\ sharer[s].pc = "invite" /\ sharer'[s].pc = "record"
           /\ sharer'[s].todo = sharer[s].todo
           /\ sharer'[s].matter = sharer[s].matter /\ sharer'[s].held = sharer[s].held
           /\ sharer'[s].seen = sharer[s].seen
           /\ share' \in ShareType /\ ids' \in Ids /\ ours' \subseteq Ids
           /\ share'.id # 0 /\ 0 \notin ours'
<1> DEFINE made == Merged(sharer[s].matter)
<1>1. /\ sharer[s].pc = "invite" /\ made.id <= MaxIds /\ share' = made
      /\ ids' = IF share = NoShare THEN made.id ELSE ids
      /\ ours' = IF share = NoShare THEN ours \cup {made.id} ELSE ours
  BY DEF Invite
<1>2. PICK answer \in {made.id, 0, Lost} :
          sharer' = [sharer EXCEPT ![s].pc = "record", ![s].id = answer]
  BY DEF Invite
<1>3. /\ made.id \in Ids /\ made.id # 0 /\ made.role \in Roles
  BY <1>1, Nothing DEF Merged, TypeOK, Ids, ShareType, SharesAreNamed, Roles, NoShare
<1>4. made \in ShareType
  BY <1>3 DEF Merged, ShareType
<1> HIDE DEF made
<1>5. sharer[s] \in PassType /\ answer \in Ids \cup {Lost}
  BY <1>3, Nothing DEF TypeOK
<1> DEFINE pass == [sharer[s] EXCEPT !.pc = "record", !.id = answer]
<1>6. /\ pass \in PassType /\ pass.pc = "record"
      /\ pass.matter = sharer[s].matter /\ pass.todo = sharer[s].todo
      /\ pass.held = sharer[s].held /\ pass.seen = sharer[s].seen
  BY <1>5 DEF PassType
<1>7. sharer' = [sharer EXCEPT ![s] = pass]
  BY <1>2 DEF TypeOK
<1> HIDE DEF pass
<1>9. /\ OnlyPass(s) /\ sharer'[s].pc = "record" /\ sharer'[s].todo = sharer[s].todo
      /\ sharer'[s].matter = sharer[s].matter /\ sharer'[s].held = sharer[s].held
      /\ sharer'[s].seen = sharer[s].seen
  BY <1>6, <1>7, PassBecomes DEF OnlyPass
<1> QED
  BY <1>1, <1>3, <1>4, <1>9 DEF TypeOK, SharesAreNamed

\* Only an answer with an id, or a share that was seen, names a permission.
LEMMA OriginNames ==
    ASSUME NEW row \in GrantType, NEW seen \in ShareType \cup {Unreadable},
           seen.id = 0 => seen \in {NoShare, Unreadable},
           NEW id \in Ids, NEW role \in Roles
    PROVE  LET origin == Origin(row, seen, id, role)
               known == IF id = 0 /\ origin = "preexisting" THEN seen.id ELSE id
           IN /\ origin \in {"none", "lawhand", "legacy", "preexisting"}
              /\ known \in Ids /\ (known = 0 => origin = "legacy")
<1>1. Origin(row, seen, id, role) \in {"none", "lawhand", "legacy", "preexisting"}
  BY DEF Origin, GrantType
<1>2. seen.id \in Ids
  BY Nothing DEF Unreadable, ShareType
<1>3. CASE id # 0
  BY <1>1, <1>3
<1>4. CASE id = 0
  <2>1. \/ Origin(row, seen, id, role) = "legacy"
        \/ Origin(row, seen, id, role) = "preexisting" /\ seen # NoShare /\ seen # Unreadable
    BY <1>4 DEF Origin
  <2> QED
    BY <1>1, <1>2, <1>4, <2>1
<1> QED
  BY <1>3, <1>4

LEMMA RecordWrites ==
    ASSUME TypeOK, SharesAreNamed, RowsAreNamed, NEW s \in Sharers, Record(s),
           sharer[s].matter \in Matters
    PROVE  /\ OnlyPass(s) /\ sharer[s].pc = "record" /\ sharer'[s].pc \in {"list", "commit"}
           /\ sharer'[s].todo = sharer[s].todo /\ sharer'[s].matter = NoMatter
           /\ sharer'[s].seen = NoShare
           /\ ~Locked(sharer[s].matter)
           /\ sharer'[s].held[sharer[s].matter].status = "active"
           /\ LegacyOrNamed(sharer'[s].held[sharer[s].matter])
           /\ \A m \in Matters \ {sharer[s].matter} :
                 sharer'[s].held[m] = sharer[s].held[m]
<1> DEFINE m == sharer[s].matter
           origin == Origin(grant[m], sharer[s].seen, sharer[s].id, RoleOf[m])
           id == IF sharer[s].id = 0 /\ origin = "preexisting"
                 THEN sharer[s].seen.id ELSE sharer[s].id
           row == [status |-> "active", origin |-> origin, id |-> id]
<1>1. sharer[s].pc = "record" /\ sharer[s].id # Lost /\ ~Locked(m)
  BY DEF Record
<1>2. /\ sharer[s] \in PassType /\ Turn(s) \in {"list", "commit"} /\ grant[m] \in GrantType
      /\ sharer[s].id \in Ids /\ sharer[s].seen \in ShareType \cup {Unreadable}
      /\ RoleOf[m] \in Roles
  BY <1>1, Nothing DEF TypeOK, Turn, PassType
<1>3. /\ origin \in {"none", "lawhand", "legacy", "preexisting"} /\ id \in Ids
      /\ id = 0 => origin = "legacy"
  BY <1>2, OriginNames DEF SharesAreNamed
<1> HIDE DEF id, origin
<1>4. /\ row \in GrantType /\ row.status = "active" /\ LegacyOrNamed(row)
  BY <1>3 DEF GrantType, LegacyOrNamed
<1>5. sharer' = [sharer EXCEPT ![s].pc = Turn(s), ![s].matter = NoMatter,
                           ![s].seen = NoShare, ![s].id = 0, ![s].held[m] = row]
  BY DEF Record, id, origin
<1> HIDE DEF row
<1> DEFINE pass == [sharer[s] EXCEPT !.pc = Turn(s), !.matter = NoMatter,
                       !.seen = NoShare, !.id = 0,
                       !.held = [sharer[s].held EXCEPT ![m] = row]]
<1>6. /\ pass \in PassType
      /\ pass.pc = Turn(s) /\ pass.matter = NoMatter /\ pass.todo = sharer[s].todo
      /\ pass.seen = NoShare /\ pass.held = [sharer[s].held EXCEPT ![m] = row]
  BY <1>2, <1>4, Nothing DEF PassType
<1>7. sharer' = [sharer EXCEPT ![s] = pass]
  BY <1>2, <1>5 DEF TypeOK, PassType
<1> HIDE DEF pass
<1>8. /\ OnlyPass(s) /\ sharer'[s] = pass
  BY <1>2, <1>6, <1>7, PassBecomes DEF OnlyPass
<1>9. sharer[s].held \in [Matters -> GrantType]
  BY <1>2 DEF PassType
<1> QED
  BY <1>1, <1>2, <1>4, <1>6, <1>8, <1>9

LEMMA CommitSharesWrites ==
    ASSUME TypeOK, NEW s \in Sharers, CommitShares(s)
    PROVE  /\ OnlyPass(s) /\ sharer[s].pc # "record" /\ sharer'[s].pc \in {"list", "idle"}
           /\ sharer'[s].todo \subseteq sharer[s].todo
           /\ sharer'[s].matter \in {sharer[s].matter, NoMatter}
           /\ sharer'[s].held = NoPass.held
           /\ sharer'[s].seen \in {sharer[s].seen, NoShare}
           /\ grant' \in [Matters -> GrantType]
           /\ \A m \in Matters :
                 grant'[m] = IF Held(s, m) THEN sharer[s].held[m] ELSE grant[m]
<1>1. sharer[s] \in PassType
  BY DEF TypeOK
<1>2. /\ grant' \in [Matters -> GrantType]
      /\ \A m \in Matters :
            grant'[m] = IF Held(s, m) THEN sharer[s].held[m] ELSE grant[m]
  BY <1>1 DEF TypeOK, PassType, CommitShares
<1>3. CASE sharer[s].pc = "commit"
  <2>1. sharer' = [sharer EXCEPT ![s] = NoPass]
    BY <1>3 DEF CommitShares
  <2>2. NoPass.seen = NoShare
    BY DEF NoPass
  <2> QED
    BY <1>2, <1>3, <2>1, <2>2, NoPassFacts, PassBecomes DEF OnlyPass
<1>4. CASE sharer[s].pc = "list"
  <2> DEFINE pass == [sharer[s] EXCEPT !.held = NoPass.held]
  <2>1. NoPass.held \in [Matters -> GrantType]
    BY NoPassFacts DEF PassType
  <2>2. /\ pass \in PassType /\ pass.pc = "list" /\ pass.todo = sharer[s].todo
        /\ pass.matter = sharer[s].matter /\ pass.held = NoPass.held
        /\ pass.seen = sharer[s].seen
    BY <1>1, <1>4, <2>1 DEF PassType
  <2>3. sharer' = [sharer EXCEPT ![s] = pass]
    BY <1>1, <1>4 DEF TypeOK, CommitShares
  <2> HIDE DEF pass
  <2> QED
    BY <1>2, <1>4, <2>2, <2>3, PassBecomes DEF OnlyPass
<1> QED
  BY <1>3, <1>4 DEF CommitShares

LEMMA PassDiesWrites ==
    ASSUME TypeOK, NEW s \in Sharers, PassDies(s)
    PROVE  /\ OnlyPass(s) /\ sharer'[s] = NoPass
BY NoPassFacts, PassBecomes DEF OnlyPass, PassDies

\* A pass moves on: it works on nothing new, and an invite it does not record
\* leaves the row in doubt.
PassMoves(s) ==
    /\ OnlyPass(s)
    /\ \A m \in Matters : /\ Works(s, m)' => Works(s, m)
                          /\ Held(s, m)' => sharer'[s].held[m].status = "active"
                          /\ LegacyOrNamed(sharer'[s].held[m])
                          /\ InvitedBy(s, m) => \/ InvitedBy(s, m)'
                                                \/ m \in doubtful' \/ grant[m] = NoGrant
    /\ sharer'[s].seen \in {sharer[s].seen, share, Unreadable, NoShare}
    /\ doubtful \subseteq doubtful' /\ doubtful' \subseteq Matters
    /\ UNCHANGED <<people, grant, share, ids, remover, ours, raced, keeper>>

LEMMA PassMovesOn ==
    ASSUME TypeOK, Placed, SharesAreNamed, RowsAreNamed, NEW s \in Sharers,
           ListShares(s) \/ NotShared(s) \/ Record(s) \/ InviteUnanswered(s) \/ PassDies(s)
    PROVE  PassMoves(s)
<1>1. /\ sharer[s] \in PassType /\ sharer[s].todo \subseteq Matters
      /\ doubtful \subseteq Matters /\ NoMatter \notin Matters
      /\ sharer[s].pc = "record" => sharer[s].matter \in Matters
  BY Nothing DEF TypeOK, PassType, Placed
<1>2. \A m \in Matters : /\ LegacyOrNamed(sharer[s].held[m])
                         /\ Held(s, m) => sharer[s].held[m].status = "active"
  BY DEF RowsAreNamed, Placed
<1>3. CASE ListShares(s)
  <2>1. UNCHANGED <<people, grant, share, ids, remover, ours, raced, doubtful, keeper>>
    BY <1>3 DEF ListShares, history
  <2> QED
    BY <1>1, <1>2, <1>3, <2>1, ListSharesWrites DEF PassMoves, Works, Held, InvitedBy
<1>4. CASE NotShared(s)
  <2>1. /\ UNCHANGED <<people, grant, share, ids, remover, ours, raced, doubtful, keeper>>
        /\ sharer[s].pc = "invite" /\ NextMatter(s)
    BY <1>4 DEF NotShared, history
  <2> QED
    BY <1>1, <1>2, <2>1, NextMatterWrites DEF PassMoves, Works, Held, InvitedBy
<1>5. CASE Record(s)
  <2>1. UNCHANGED <<people, grant, share, ids, remover, ours, raced, doubtful, keeper>>
    BY <1>5 DEF Record, history
  <2> DEFINE n == sharer[s].matter
  <2>2. sharer[s].pc = "record"
    BY <1>5 DEF Record
  <2>3. n \in Matters
    BY <1>1, <2>2
  <2>4. /\ OnlyPass(s) /\ sharer'[s].pc \in {"list", "commit"}
        /\ sharer'[s].todo = sharer[s].todo /\ sharer'[s].matter = NoMatter
        /\ sharer'[s].seen = NoShare
        /\ sharer'[s].held[n].status = "active"
        /\ LegacyOrNamed(sharer'[s].held[n])
        /\ \A m \in Matters \ {n} : sharer'[s].held[m] = sharer[s].held[m]
    BY <1>5, <2>3, RecordWrites
  <2>5. sharer'[s].held[n] # NoGrant
    BY <2>4, Nothing
  <2> HIDE DEF n
  <2>6. ASSUME NEW m \in Matters
        PROVE  /\ Works(s, m)' => Works(s, m)
               /\ Held(s, m)' => sharer'[s].held[m].status = "active"
               /\ LegacyOrNamed(sharer'[s].held[m])
               /\ InvitedBy(s, m) => InvitedBy(s, m)'
    <3>1. CASE m = n
      BY <1>1, <2>2, <2>4, <2>5, <3>1 DEF Works, Held, InvitedBy, n
    <3>2. CASE m # n
      BY <1>1, <1>2, <2>2, <2>4, <3>2 DEF Works, Held, InvitedBy, n
    <3> QED
      BY <3>1, <3>2
  <2> QED
    BY <1>1, <2>1, <2>4, <2>6 DEF PassMoves
<1>6. CASE InviteUnanswered(s)
  <2>1. /\ UNCHANGED <<people, grant, share, ids, remover, ours, raced, keeper>>
        /\ sharer[s].pc = "record" /\ NextMatter(s) /\ Unrecorded({sharer[s].matter})
    BY <1>6 DEF InviteUnanswered
  <2>2. /\ doubtful \subseteq doubtful' /\ doubtful' \subseteq Matters
        /\ \A m \in Matters : m = sharer[s].matter => m \in doubtful' \/ grant[m] = NoGrant
    BY <1>1, <2>1 DEF Unrecorded
  <2> QED
    BY <1>1, <1>2, <2>1, <2>2, NextMatterWrites DEF PassMoves, Works, Held, InvitedBy
<1>7. CASE PassDies(s)
  <2>1. /\ UNCHANGED <<people, grant, share, ids, remover, ours, raced, keeper>>
        /\ Unrecorded(LostInvites(s))
    BY <1>7 DEF PassDies
  <2>2. /\ doubtful \subseteq doubtful' /\ doubtful' \subseteq Matters
        /\ \A m \in Matters : InvitedBy(s, m) => m \in doubtful' \/ grant[m] = NoGrant
    BY <1>1, <2>1 DEF Unrecorded, LostInvites, InvitedBy
  <2>3. OnlyPass(s) /\ sharer'[s] = NoPass
    BY <1>7, PassDiesWrites
  <2>4. \A m \in Matters : ~Held(s, m)' /\ ~Works(s, m)' /\ LegacyOrNamed(sharer'[s].held[m])
    BY <1>1, <2>3, NoPassFacts DEF Held, Works, LegacyOrNamed
  <2>5. sharer'[s].seen = NoShare
    BY <2>3 DEF NoPass
  <2> QED
    BY <2>1, <2>2, <2>3, <2>4, <2>5 DEF PassMoves
<1> QED
  BY <1>3, <1>4, <1>5, <1>6, <1>7

(***************************************************************************)
(* What a step of a run writes.                                            *)
(***************************************************************************)

\* A run that just began on these rows, or has ended.
Fresh(run, rows) ==
    /\ run \in RunType /\ run.pc # "remove"
    /\ \A m \in Matters :
          /\ run.out[m] \in {"none", "todo"}
          /\ run.out[m] # "none" => /\ rows[m].status = "revoke_pending"
                                    /\ run.id[m] = rows[m].id

LEMMA FreshRuns ==
    ASSUME NEW rows \in [Matters -> GrantType], NEW scope \in Scopes, NEW job \in BOOLEAN
    PROVE  Fresh(NoRun, rows) /\ Fresh(Begun(rows, scope, job), rows)
<1>1. Fresh(NoRun, rows)
  BY NoRunFacts DEF Fresh
<1> DEFINE found == {m \in Matters : Covers(scope, m) /\ rows[m].status = "revoke_pending"}
           id == [m \in Matters |-> IF m \in found THEN rows[m].id ELSE 0]
           out == [m \in Matters |-> IF m \in found THEN "todo" ELSE "none"]
           run == [pc |-> "check", scope |-> scope, job |-> job, at |-> NoMatter,
                   back |-> FALSE, id |-> id, out |-> out]
<1>2. /\ id \in [Matters -> Ids] /\ out \in [Matters -> {"none", "todo"}]
      /\ \A m \in Matters : out[m] # "none" => /\ rows[m].status = "revoke_pending"
                                               /\ id[m] = rows[m].id
  BY Nothing DEF GrantType
<1>3. Begun(rows, scope, job) = run
  BY DEF Begun
<1> HIDE DEF id, out
<1>4. run \in RunType /\ run.pc = "check" /\ run.id = id /\ run.out = out
  BY <1>2 DEF RunType
<1> HIDE DEF run
<1>5. Fresh(run, rows)
  BY <1>2, <1>4 DEF Fresh
<1> QED
  BY <1>1, <1>3, <1>5

\* Only r moves.
OnlyRun(r) ==
    /\ remover' \in [Removers -> RunType]
    /\ \A v \in Removers \ {r} : remover'[v] = remover[v]

\* The outcome of m, and nothing else about what the run knows.
Decides(r, m, outcome) ==
    /\ remover'[r].id = remover[r].id
    /\ remover'[r].out[m] = outcome
    /\ \A n \in Matters \ {m} : remover'[r].out[n] = remover[r].out[n]

LEMMA CheckedWrites ==
    ASSUME TypeOK, NEW r \in Removers, NEW m \in Matters,
           NEW outcome \in {"failed", "revoked"}, Checked(r, m, outcome)
    PROVE  OnlyRun(r) /\ remover'[r].pc = "check" /\ Decides(r, m, outcome)
<1>1. remover[r] \in RunType
  BY DEF TypeOK
<1> DEFINE run == [remover[r] EXCEPT !.pc = "check", !.at = NoMatter, !.back = FALSE,
                                     !.out = [remover[r].out EXCEPT ![m] = outcome]]
<1>2. /\ run \in RunType /\ run.pc = "check" /\ run.id = remover[r].id
      /\ run.out = [remover[r].out EXCEPT ![m] = outcome]
  BY <1>1 DEF RunType
<1>3. remover' = [remover EXCEPT ![r] = run]
  BY <1>1 DEF Checked, TypeOK, RunType
<1> HIDE DEF run
<1>4. remover[r].out \in [Matters -> {"none", "todo", "restored", "released", "failed",
                                      "revoked"}]
  BY <1>1 DEF RunType
<1> QED
  BY <1>2, <1>3, <1>4 DEF OnlyRun, Decides, TypeOK

\* The row is the person's again, or another matter needs the share, or
\* nobody does and the share is to be removed.
Answers(r, m) ==
    \/ StillEntitled(m) /\ remover'[r].pc = "check" /\ Decides(r, m, "restored")
    \/ /\ ~StillEntitled(m) /\ NeededElsewhere(m)
       /\ remover'[r].pc = "check" /\ Decides(r, m, "released")
    \/ /\ ~StillEntitled(m) /\ ~NeededElsewhere(m)
       /\ remover'[r].pc = "remove" /\ remover'[r].at = m /\ Decides(r, m, "todo")

LEMMA CheckWrites ==
    ASSUME TypeOK, NEW r \in Removers, NEW m \in Matters,
           remover[r].pc = "check", remover[r].out[m] = "todo",
           remover' =
                IF StillEntitled(m) THEN [remover EXCEPT ![r].out[m] = "restored"]
                ELSE IF NeededElsewhere(m) THEN [remover EXCEPT ![r].out[m] = "released"]
                ELSE [remover EXCEPT ![r].pc = "remove", ![r].at = m]
    PROVE  OnlyRun(r) /\ Answers(r, m)
<1>1. /\ remover[r] \in RunType
      /\ remover[r].out \in [Matters -> {"none", "todo", "restored", "released", "failed",
                                         "revoked"}]
  BY DEF TypeOK, RunType
<1>2. ASSUME NEW outcome \in {"restored", "released"},
             remover' = [remover EXCEPT ![r].out[m] = outcome]
      PROVE  OnlyRun(r) /\ remover'[r].pc = "check" /\ Decides(r, m, outcome)
  <2> DEFINE run == [remover[r] EXCEPT !.out = [remover[r].out EXCEPT ![m] = outcome]]
  <2>1. /\ run \in RunType /\ run.pc = "check" /\ run.id = remover[r].id
        /\ run.out = [remover[r].out EXCEPT ![m] = outcome]
    BY <1>1 DEF RunType
  <2>2. remover' = [remover EXCEPT ![r] = run]
    BY <1>1, <1>2 DEF TypeOK, RunType
  <2> HIDE DEF run
  <2>3. OnlyRun(r) /\ remover'[r] = run
    BY <2>1, <2>2 DEF OnlyRun, TypeOK
  <2>4. /\ remover'[r].pc = "check" /\ remover'[r].id = remover[r].id
        /\ remover'[r].out = [remover[r].out EXCEPT ![m] = outcome]
    BY <2>1, <2>3
  <2>5. /\ remover'[r].out[m] = outcome
        /\ \A n \in Matters \ {m} : remover'[r].out[n] = remover[r].out[n]
    BY <1>1, <2>4
  <2> QED
    BY <2>3, <2>4, <2>5 DEF Decides
<1>3. CASE StillEntitled(m)
  BY <1>2, <1>3 DEF Answers
<1>4. CASE ~StillEntitled(m) /\ NeededElsewhere(m)
  BY <1>2, <1>4 DEF Answers
<1>5. CASE ~StillEntitled(m) /\ ~NeededElsewhere(m)
  <2> DEFINE run == [remover[r] EXCEPT !.pc = "remove", !.at = m]
  <2>1. /\ run \in RunType /\ run.pc = "remove" /\ run.at = m
        /\ run.id = remover[r].id /\ run.out = remover[r].out
    BY <1>1 DEF RunType
  <2>2. remover' = [remover EXCEPT ![r] = run]
    BY <1>1, <1>5 DEF TypeOK, RunType
  <2> HIDE DEF run
  <2> QED
    BY <1>1, <1>5, <2>1, <2>2 DEF OnlyRun, Answers, Decides, TypeOK
<1> QED
  BY <1>3, <1>4, <1>5

\* A removal that is left to another matter is left to one that needs the share.
Leaves(m, released) ==
    IF released /\ m = keeper
    THEN \E n \in Matters \ {m} : (grant[n].status = "active" \/ Entitled(n)) /\ LeaveTo(n)
    ELSE UNCHANGED <<doubtful, keeper>>

Checks(r, m) ==
    /\ remover[r].pc = "check" /\ remover[r].out[m] = "todo"
    /\ OnlyRun(r) /\ Answers(r, m)
    /\ Leaves(m, remover'[r].out[m] = "released")
    /\ UNCHANGED <<people, grant, share, ids, sharer, ours, raced>>

LEMMA CheckAnswers ==
    ASSUME TypeOK, NEW r \in Removers, Check(r)
    PROVE  \E m \in Matters : Checks(r, m)
<1>1. PICK m \in Matters :
        /\ remover[r].out[m] = "todo"
        /\ remover' =
              IF StillEntitled(m) THEN [remover EXCEPT ![r].out[m] = "restored"]
              ELSE IF NeededElsewhere(m) THEN [remover EXCEPT ![r].out[m] = "released"]
              ELSE [remover EXCEPT ![r].pc = "remove", ![r].at = m]
        /\ IF remover'[r].out[m] = "released" /\ m = keeper
           THEN \E n \in Matters \ {m} :
                   (grant[n].status = "active" \/ Entitled(n)) /\ LeaveTo(n)
           ELSE UNCHANGED <<doubtful, keeper>>
  BY DEF Check
<1>2. /\ remover[r].pc = "check"
      /\ UNCHANGED <<people, grant, share, ids, sharer, ours, raced>>
  BY DEF Check
<1>3. Leaves(m, remover'[r].out[m] = "released")
  BY <1>1, Zenon DEF Leaves
<1>4. OnlyRun(r) /\ Answers(r, m)
  BY <1>1, <1>2, CheckWrites
<1> QED
  BY <1>1, <1>2, <1>3, <1>4 DEF Checks

\* The share is gone, or stays as it was.
Removes(r) ==
    /\ remover[r].pc = "remove" /\ OnlyRun(r) /\ remover'[r].pc = "check"
    /\ \/ /\ Decides(r, remover[r].at, "revoked")
          /\ share' = IF Removable(r, remover[r].at) THEN NoShare ELSE share
       \/ /\ Decides(r, remover[r].at, "failed")
          /\ share' \in {share, IF Removable(r, remover[r].at) THEN NoShare ELSE share}
    /\ UNCHANGED <<people, grant, ids, sharer, history>>

LEMMA RemoveDoes ==
    ASSUME TypeOK, Placed, NEW r \in Removers, Remove(r) \/ RemoveFails(r)
    PROVE  Removes(r)
<1>1. remover[r].pc = "remove" /\ remover[r].at \in Matters
  BY DEF Placed, Remove, RemoveFails
<1>2. CASE Remove(r)
  <2>1. /\ share' = IF Removable(r, remover[r].at) THEN NoShare ELSE share
        /\ Checked(r, remover[r].at, "revoked")
        /\ UNCHANGED <<people, grant, ids, sharer, history>>
    BY <1>2 DEF Remove
  <2> QED
    BY <1>1, <2>1, CheckedWrites DEF Removes
<1>3. CASE RemoveFails(r)
  <2>1. /\ share' \in {share, IF Removable(r, remover[r].at) THEN NoShare ELSE share}
        /\ Checked(r, remover[r].at, "failed")
        /\ UNCHANGED <<people, grant, ids, sharer, history>>
    BY <1>3 DEF RemoveFails
  <2> QED
    BY <1>1, <2>1, CheckedWrites DEF Removes
<1> QED
  BY <1>2, <1>3

\* A row that waits takes the outcome; any other stays as it is.
Applies(r) ==
    /\ remover[r].pc = "check" /\ \A m \in Matters : remover[r].out[m] # "todo"
    /\ OnlyRun(r) /\ remover'[r] = NoRun
    /\ grant' \in [Matters -> GrantType]
    /\ \A m \in Matters :
          /\ ~Pending(m) \/ remover[r].out[m] \in {"none", "failed"} => grant'[m] = grant[m]
          /\ Pending(m) /\ remover[r].out[m] \notin {"none", "failed"} =>
                /\ grant'[m].status = IF remover[r].out[m] = "restored" THEN "active"
                                      ELSE "revoked"
                /\ grant'[m].origin = grant[m].origin /\ grant'[m].id = grant[m].id
    /\ doubtful' = doubtful \cup {m \in Matters : /\ Entitled(m) /\ Pending(m)
                                                 /\ grant'[m].status = "revoked"}
    /\ UNCHANGED <<people, share, ids, sharer, ours, raced, keeper>>

LEMMA ApplyDoes ==
    ASSUME TypeOK, NEW r \in Removers, Apply(r)
    PROVE  Applies(r)
<1>1. /\ remover[r].pc = "check" /\ \A m \in Matters : remover[r].out[m] # "todo"
      /\ grant' = [m \in Matters |-> Outcome(grant[m], remover[r].out[m])]
      /\ remover' = [remover EXCEPT ![r] = NoRun]
      /\ doubtful' = doubtful \cup {m \in Matters : /\ Entitled(m) /\ Pending(m)
                                                   /\ grant'[m].status = "revoked"}
      /\ UNCHANGED <<people, share, ids, sharer, ours, raced, keeper>>
  BY DEF Apply
<1>2. OnlyRun(r) /\ remover'[r] = NoRun
  BY <1>1, NoRunFacts DEF OnlyRun, TypeOK
<1>3. ASSUME NEW m \in Matters
      PROVE  /\ grant'[m] \in GrantType
             /\ ~Pending(m) \/ remover[r].out[m] \in {"none", "failed"} => grant'[m] = grant[m]
             /\ Pending(m) /\ remover[r].out[m] \notin {"none", "failed"} =>
                   /\ grant'[m].status = IF remover[r].out[m] = "restored" THEN "active"
                                         ELSE "revoked"
                   /\ grant'[m].origin = grant[m].origin /\ grant'[m].id = grant[m].id
  <2>1. grant'[m] = Outcome(grant[m], remover[r].out[m]) /\ grant[m] \in GrantType
    BY <1>1 DEF TypeOK
  <2> QED
    BY <2>1 DEF Outcome, Pending, GrantType
<1>4. grant' \in [Matters -> GrantType]
  BY <1>1, <1>3
<1> QED
  BY <1>1, <1>2, <1>3, <1>4 DEF Applies

(***************************************************************************)
(* What a request writes, and what is left of a job's comings and goings.  *)
(***************************************************************************)

\* The person is entitled to more, and a pass may begin to share it.
Begins ==
    /\ assigned' \subseteq Matters /\ active' \in BOOLEAN
    /\ \A m \in Matters : Entitled(m) => Entitled(m)'
    /\ sharer' \in [Sharers -> PassType]
    /\ \A s \in Sharers :
          \/ sharer'[s] = sharer[s]
          \/ /\ sharer[s] = NoPass /\ sharer'[s].pc = "list"
             /\ \A m \in sharer'[s].todo : Entitled(m)'
             /\ sharer'[s].matter = NoMatter /\ sharer'[s].held = NoPass.held
             /\ sharer'[s].seen = NoShare
    /\ remover' \in [Removers -> RunType] /\ RunsStay
    /\ \A r \in Removers :
          /\ remover[r].back => remover'[r].back
          /\ remover[r].pc = "remove" /\ (\E m \in Matters : ~Entitled(m) /\ Entitled(m)')
             => remover'[r].back
    /\ UNCHANGED <<grant, share, ids, history>>

LEMMA RequestsBegin ==
    ASSUME TypeOK,
           Reactivate \/ (\E m \in Matters : Assign(m) \/ ShareAgain(m))
    PROVE  Begins
<1>1. /\ assigned \subseteq Matters /\ active \in BOOLEAN
      /\ sharer \in [Sharers -> PassType] /\ remover \in [Removers -> RunType]
  BY DEF TypeOK
<1>2. ASSUME NEW ms \in SUBSET Matters, Shares(ms), \A m \in ms : Entitled(m)'
      PROVE  /\ sharer' \in [Sharers -> PassType]
             /\ \A s \in Sharers :
                   \/ sharer'[s] = sharer[s]
                   \/ /\ sharer[s] = NoPass /\ sharer'[s].pc = "list"
                      /\ \A m \in sharer'[s].todo : Entitled(m)'
                      /\ sharer'[s].matter = NoMatter /\ sharer'[s].held = NoPass.held
                      /\ sharer'[s].seen = NoShare
  BY <1>2, SharesWrites
<1>3. ComesBack => /\ remover' \in [Removers -> RunType] /\ RunsStay
                   /\ \A r \in Removers :
                         remover[r].back \/ remover[r].pc = "remove" => remover'[r].back
  BY ComesBackWrites
<1>4. UNCHANGED remover => /\ remover' \in [Removers -> RunType] /\ RunsStay
                           /\ \A r \in Removers : remover[r].back => remover'[r].back
  BY <1>1 DEF RunsStay
<1>5. CASE Reactivate
  <2>1. /\ ~active /\ active' = TRUE /\ assigned' = assigned /\ Shares(assigned)
        /\ IF assigned # {} THEN ComesBack ELSE UNCHANGED remover
        /\ UNCHANGED <<grant, share, ids, history>>
    BY <1>5 DEF Reactivate
  <2>2. /\ \A m \in Matters : Entitled(m) => Entitled(m)'
        /\ \A m \in assigned : Entitled(m)'
        /\ assigned = {} => \A m \in Matters : ~Entitled(m)'
    BY <2>1 DEF Entitled
  <2>3. /\ remover' \in [Removers -> RunType] /\ RunsStay
        /\ \A r \in Removers :
              /\ remover[r].back => remover'[r].back
              /\ remover[r].pc = "remove" /\ assigned # {} => remover'[r].back
    BY <1>3, <1>4, <2>1
  <2> QED
    BY <1>1, <1>2, <2>1, <2>2, <2>3 DEF Begins
<1>6. ASSUME NEW n \in Matters, Assign(n)
      PROVE  Begins
  <2>1. /\ active' = active /\ assigned' = assigned \cup {n}
        /\ IF active THEN Shares({n}) /\ ComesBack ELSE UNCHANGED work
        /\ UNCHANGED <<grant, share, ids, history>>
    BY <1>6 DEF Assign
  <2>2. /\ \A m \in Matters : Entitled(m) => Entitled(m)'
        /\ active => Entitled(n)'
        /\ ~active => \A m \in Matters : ~Entitled(m)'
    BY <2>1 DEF Entitled
  <2>3. CASE active
    <3>1. /\ remover' \in [Removers -> RunType] /\ RunsStay
          /\ \A r \in Removers :
                remover[r].back \/ remover[r].pc = "remove" => remover'[r].back
      BY <1>3, <2>1, <2>3
    <3> QED
      BY <1>1, <1>2, <2>1, <2>2, <2>3, <3>1 DEF Begins
  <2>4. CASE ~active
    <3>1. UNCHANGED <<sharer, remover>>
      BY <2>1, <2>4 DEF work
    <3> QED
      BY <1>1, <1>4, <2>1, <2>2, <2>4, <3>1 DEF Begins
  <2> QED
    BY <2>3, <2>4
<1>7. ASSUME NEW n \in Matters, ShareAgain(n)
      PROVE  Begins
  <2>1. /\ active' = active /\ assigned' = assigned /\ Entitled(n) /\ Shares({n})
        /\ UNCHANGED <<grant, share, ids, remover, history>>
    BY <1>7 DEF ShareAgain, people
  <2>2. \A m \in Matters : Entitled(m)' <=> Entitled(m)
    BY <2>1 DEF Entitled
  <2> QED
    BY <1>1, <1>2, <1>4, <2>1, <2>2 DEF Begins
<1> QED
  BY <1>5, <1>6, <1>7

\* Runs begin on the rows as they are, or end.
Turns ==
    /\ \A r \in Removers : remover'[r] = remover[r] \/ Fresh(remover'[r], grant)
    /\ remover' \in [Removers -> RunType]
    /\ UNCHANGED <<people, grant, share, ids, sharer, history>>

LEMMA RunsTurn ==
    ASSUME TypeOK,
           \/ Sweep \/ UNCHANGED vars
           \/ \E r \in Removers : \/ \E scope \in Scopes : StartJob(r, scope)
                                  \/ RunDies(r)
    PROVE  Turns
<1>1. grant \in [Matters -> GrantType] /\ remover \in [Removers -> RunType]
  BY DEF TypeOK
<1>2. CASE Sweep \/ UNCHANGED vars
  BY <1>1, <1>2 DEF Sweep, vars, work, Turns
<1>3. ASSUME NEW r \in Removers, NEW scope \in Scopes, StartJob(r, scope)
      PROVE  Turns
  <2> DEFINE run == Begun(grant, scope, TRUE)
  <2>1. /\ remover' = [remover EXCEPT ![r] = run]
        /\ UNCHANGED <<people, grant, share, ids, sharer, history>>
    BY <1>3 DEF StartJob
  <2>2. Fresh(run, grant)
    BY <1>1, FreshRuns
  <2> HIDE DEF run
  <2>3. run \in RunType
    BY <2>2 DEF Fresh
  <2> QED
    BY <1>1, <2>1, <2>2, <2>3 DEF Turns
<1>4. ASSUME NEW r \in Removers, RunDies(r)
      PROVE  Turns
  <2>1. /\ remover' = [remover EXCEPT ![r] = NoRun]
        /\ UNCHANGED <<people, grant, share, ids, sharer, history>>
    BY <1>4 DEF RunDies
  <2>2. Fresh(NoRun, grant) /\ NoRun \in RunType
    BY <1>1, FreshRuns, NoRunFacts DEF Scopes
  <2> QED
    BY <1>1, <2>1, <2>2 DEF Turns
<1> QED
  BY <1>2, <1>3, <1>4

\* The person is on fewer matters, and the rows of those are marked.
Departs(ms) ==
    /\ assigned' \subseteq Matters /\ active' \in BOOLEAN
    /\ \A m \in Matters : /\ Entitled(m)' => Entitled(m)
                          /\ Entitled(m) /\ ~Entitled(m)' => m \in ms
    /\ \A m \in ms : ~Locked(m)
    /\ grant' \in [Matters -> GrantType]
    /\ \A m \in Matters : grant'[m] = IF m \in ms THEN Marked(m) ELSE grant[m]
    /\ \A r \in Removers : remover'[r] = remover[r] \/ Fresh(remover'[r], grant')
    /\ remover' \in [Removers -> RunType]
    /\ raced' = (raced \ ms) \cup {m \in ms : InHand(m)}
    /\ doubtful' = doubtful \cup {m \in ms : InHand(m)}
    /\ UNCHANGED <<share, ids, sharer, ours, keeper>>

LEMMA MarkedRow ==
    ASSUME TypeOK, NEW m \in Matters
    PROVE  /\ Marked(m) \in GrantType
           /\ grant[m] = NoGrant =>
                 /\ Marked(m).status = "revoke_pending" /\ Marked(m).origin = "legacy"
                 /\ Marked(m).id = 0
           /\ grant[m] # NoGrant =>
                 /\ Marked(m).origin = grant[m].origin /\ Marked(m).id = grant[m].id
                 /\ grant[m].status # "active" => Marked(m) = grant[m]
                 /\ grant[m].status = "active" =>
                       Marked(m).status = IF grant[m].origin = "preexisting" THEN "kept"
                                          ELSE "revoke_pending"
<1>1. grant[m] \in GrantType
  BY DEF TypeOK
<1>2. CASE grant[m] = NoGrant
  BY <1>1, <1>2, Nothing DEF Marked, GrantType
<1>3. CASE grant[m] # NoGrant
  BY <1>1, <1>3 DEF Marked, GrantType
<1> QED
  BY <1>2, <1>3

LEMMA DepartWrites ==
    ASSUME TypeOK, NEW ms \in SUBSET Matters, NEW scope \in Scopes, Depart(ms, scope)
    PROVE  /\ \A m \in ms : ~Locked(m)
           /\ grant' \in [Matters -> GrantType]
           /\ \A m \in Matters : grant'[m] = IF m \in ms THEN Marked(m) ELSE grant[m]
           /\ \A r \in Removers : remover'[r] = remover[r] \/ Fresh(remover'[r], grant')
           /\ remover' \in [Removers -> RunType]
           /\ raced' = (raced \ ms) \cup {m \in ms : InHand(m)}
           /\ doubtful' = doubtful \cup {m \in ms : InHand(m)}
           /\ keeper' = keeper
<1> DEFINE marked == [m \in Matters |-> IF m \in ms THEN Marked(m) ELSE grant[m]]
<1>1. /\ \A m \in ms : ~Locked(m)
      /\ grant' = marked
      /\ raced' = (raced \ ms) \cup {m \in ms : InHand(m)}
      /\ doubtful' = doubtful \cup {m \in ms : InHand(m)}
      /\ keeper' = keeper
      /\ \/ UNCHANGED remover
         \/ \E r \in Removers :
               /\ remover[r] = NoRun
               /\ remover' = [remover EXCEPT ![r] = Begun(marked, scope, FALSE)]
  BY DEF Depart
<1>2. marked \in [Matters -> GrantType]
  BY MarkedRow DEF TypeOK
<1>3. \A m \in Matters : marked[m] = IF m \in ms THEN Marked(m) ELSE grant[m]
  OBVIOUS
<1> HIDE DEF marked
<1>4. /\ \A r \in Removers : remover'[r] = remover[r] \/ Fresh(remover'[r], grant')
      /\ remover' \in [Removers -> RunType]
  <2>1. CASE UNCHANGED remover
    BY <2>1 DEF TypeOK
  <2>2. ASSUME NEW r \in Removers,
               remover' = [remover EXCEPT ![r] = Begun(marked, scope, FALSE)]
        PROVE  /\ \A v \in Removers : remover'[v] = remover[v] \/ Fresh(remover'[v], grant')
               /\ remover' \in [Removers -> RunType]
    <3>1. Fresh(Begun(marked, scope, FALSE), grant')
      BY <1>1, <1>2, FreshRuns
    <3>2. Begun(marked, scope, FALSE) \in RunType
      BY <3>1 DEF Fresh
    <3> QED
      BY <2>2, <3>1, <3>2 DEF TypeOK
  <2> QED
    BY <1>1, <2>1, <2>2
<1> QED
  BY <1>1, <1>2, <1>3, <1>4

LEMMA RequestsDepart ==
    ASSUME TypeOK, Deactivate \/ (\E m \in Matters : Unassign(m))
    PROVE  \E ms \in SUBSET Matters : Departs(ms)
<1>1. assigned \subseteq Matters /\ active \in BOOLEAN
  BY DEF TypeOK
<1>2. CASE Deactivate
  <2> DEFINE ms == assigned \cup {m \in Matters : grant[m].status = "active"}
  <2>1. /\ active' = FALSE /\ Depart(ms, All)
        /\ UNCHANGED <<assigned, share, ids, sharer, ours>>
    BY <1>2 DEF Deactivate
  <2>2. ms \in SUBSET Matters /\ All \in Scopes
    BY <1>1 DEF Scopes
  <2>3. \A m \in Matters : ~Entitled(m)' /\ (Entitled(m) => m \in ms)
    BY <2>1 DEF Entitled
  <2> HIDE DEF ms
  <2> QED
    BY <1>1, <2>1, <2>2, <2>3, DepartWrites DEF Departs
<1>3. ASSUME NEW n \in Matters, Unassign(n)
      PROVE  \E ms \in SUBSET Matters : Departs(ms)
  <2>1. /\ assigned' = assigned \ {n} /\ Depart({n}, n)
        /\ UNCHANGED <<active, share, ids, sharer, ours>>
    BY <1>3 DEF Unassign
  <2>2. {n} \in SUBSET Matters /\ n \in Scopes
    BY DEF Scopes
  <2>3. \A m \in Matters : /\ Entitled(m)' => Entitled(m)
                           /\ Entitled(m) /\ ~Entitled(m)' => m \in {n}
    BY <2>1 DEF Entitled
  <2> QED
    BY <1>1, <2>1, <2>2, <2>3, DepartWrites DEF Departs
<1> QED
  BY <1>2, <1>3

(***************************************************************************)
(* A step does one of nine things.                                         *)
(***************************************************************************)
LEMMA StepEffects ==
    ASSUME TypeOK, Placed, SharesAreNamed, RowsAreNamed, [Next]_vars
    PROVE  \/ Begins \/ Turns
           \/ \E ms \in SUBSET Matters : Departs(ms)
           \/ \E s \in Sharers : PassMoves(s) \/ Invite(s) \/ CommitShares(s)
           \/ \E r \in Removers : \/ \E m \in Matters : Checks(r, m)
                                  \/ Removes(r) \/ Applies(r)
<1>1. CASE RequestStep
  BY <1>1, RequestsBegin, RequestsDepart DEF RequestStep
<1>2. CASE Sweep \/ UNCHANGED vars
  BY <1>2, RunsTurn
<1>3. ASSUME NEW s \in Sharers, PassStep(s) \/ PassDies(s)
      PROVE  PassMoves(s) \/ Invite(s) \/ CommitShares(s)
  BY <1>3, PassMovesOn DEF PassStep
<1>4. ASSUME NEW r \in Removers, RunStep(r) \/ RemoveFails(r) \/ RunDies(r)
      PROVE  \/ Turns \/ \E m \in Matters : Checks(r, m)
             \/ Removes(r) \/ Applies(r)
  <2>1. CASE RunDies(r) \/ \E scope \in Scopes : StartJob(r, scope)
    BY <2>1, RunsTurn
  <2>2. CASE Check(r)
    BY <2>2, CheckAnswers
  <2>3. CASE Remove(r) \/ RemoveFails(r)
    BY <2>3, RemoveDoes
  <2>4. CASE Apply(r)
    BY <2>4, ApplyDoes
  <2> QED
    BY <1>4, <2>1, <2>2, <2>3, <2>4 DEF RunStep
<1> QED
  BY <1>1, <1>2, <1>3, <1>4 DEF Next

(***************************************************************************)
(* Type correctness.                                                       *)
(***************************************************************************)
LEMMA CountsTyped ==
    ASSUME TypeOK, [Next]_vars
    PROVE  /\ queued' \subseteq Scopes
           /\ requests' \in 0..MaxRequests /\ faults' \in 0..MaxFaults
<1>1. /\ queued \subseteq Scopes
      /\ requests \in 0..MaxRequests /\ faults \in 0..MaxFaults
      /\ MaxRequests \in Nat /\ MaxFaults \in Nat
  BY Nothing DEF TypeOK
<1>2. \A r \in Removers : remover[r].scope \in Scopes
  BY DEF TypeOK, RunType
<1>3. CASE UNCHANGED <<queued, requests, faults>>
  BY <1>1, <1>3
<1>4. ASSUME UNCHANGED queued, Request \/ requests' = requests,
             faults' = faults \/ (faults < MaxFaults /\ faults' = faults + 1)
      PROVE  /\ queued' \subseteq Scopes
             /\ requests' \in 0..MaxRequests /\ faults' \in 0..MaxFaults
  BY <1>1, <1>4 DEF Request
<1>5. ASSUME NEW scope \in Scopes, NEW ms, Depart(ms, scope)
      PROVE  queued' \subseteq Scopes
  BY <1>1, <1>5 DEF Depart, Enqueue
<1>6. CASE RequestStep
  <2>1. faults' = faults /\ Request
    BY <1>6 DEF RequestStep, Assign, ShareAgain, Unassign, Reactivate, Deactivate
  <2>2. queued' \subseteq Scopes
    <3>1. CASE Reactivate \/ \E m \in Matters : Assign(m) \/ ShareAgain(m)
      BY <1>1, <3>1 DEF Reactivate, Assign, ShareAgain
    <3>2. CASE Deactivate
      BY <1>5, <3>2 DEF Deactivate, Scopes
    <3>3. ASSUME NEW m \in Matters, Unassign(m)
          PROVE  queued' \subseteq Scopes
      <4>1. m \in Scopes /\ Depart({m}, m)
        BY <3>3 DEF Unassign, Scopes
      <4> QED
        BY <1>5, <4>1
    <3> QED
      BY <1>6, <3>1, <3>2, <3>3 DEF RequestStep
  <2> QED
    BY <1>1, <2>1, <2>2 DEF Request
<1>7. CASE Sweep
  BY <1>1, <1>7 DEF Sweep, Enqueue, bounds, Scopes
<1>8. ASSUME NEW s \in Sharers, PassStep(s)
      PROVE  UNCHANGED <<queued, requests, faults>>
  BY <1>8 DEF PassStep, ListShares, NotShared, Invite, Record, InviteUnanswered,
              CommitShares, bounds
<1>9. ASSUME NEW s \in Sharers, PassDies(s)
      PROVE  UNCHANGED <<queued, requests>> /\ faults < MaxFaults /\ faults' = faults + 1
  BY <1>9 DEF PassDies
<1>10. ASSUME NEW r \in Removers, RunStep(r)
       PROVE  queued' \subseteq Scopes /\ UNCHANGED <<requests, faults>>
  <2>1. ASSUME NEW scope \in Scopes, StartJob(r, scope)
        PROVE  queued' \subseteq Scopes /\ UNCHANGED <<requests, faults>>
    BY <1>1, <2>1 DEF StartJob, bounds
  <2>2. CASE Check(r) \/ Remove(r)
    BY <1>1, <2>2 DEF Check, Remove, bounds
  <2>3. CASE Apply(r)
    BY <1>1, <1>2, <2>3 DEF Apply, bounds
  <2> QED
    BY <1>10, <2>1, <2>2, <2>3 DEF RunStep
<1>11. ASSUME NEW r \in Removers, RemoveFails(r) \/ RunDies(r)
       PROVE  /\ queued' \subseteq Scopes /\ requests' = requests
              /\ faults < MaxFaults /\ faults' = faults + 1
  BY <1>1, <1>2, <1>11 DEF RemoveFails, RunDies
<1> QED
  BY <1>1, <1>3, <1>4, <1>6, <1>7, <1>8, <1>9, <1>10, <1>11 DEF Next, vars, bounds

LEMMA Typed ==
    ASSUME TypeOK, Placed, SharesAreNamed, RowsAreNamed, [Next]_vars
    PROVE  TypeOK'
<1>1. /\ assigned \subseteq Matters /\ active \in BOOLEAN
      /\ grant \in [Matters -> GrantType] /\ share \in ShareType /\ ids \in Ids
      /\ sharer \in [Sharers -> PassType] /\ remover \in [Removers -> RunType]
      /\ ours \subseteq Ids /\ raced \subseteq Matters
      /\ doubtful \subseteq Matters /\ keeper \in Matters \cup {NoMatter}
      /\ NoShare \in ShareType
  BY Nothing DEF TypeOK
<1> DEFINE Goal == /\ assigned' \subseteq Matters /\ active' \in BOOLEAN
                   /\ grant' \in [Matters -> GrantType] /\ share' \in ShareType
                   /\ ids' \in Ids /\ sharer' \in [Sharers -> PassType]
                   /\ remover' \in [Removers -> RunType]
                   /\ ours' \subseteq Ids /\ raced' \subseteq Matters
                   /\ doubtful' \subseteq Matters /\ keeper' \in Matters \cup {NoMatter}
<1>2. ASSUME Begins
      PROVE  Goal
  BY <1>1, <1>2 DEF Begins, history
<1>3. ASSUME Turns
      PROVE  Goal
  BY <1>1, <1>3 DEF Turns, people, history
<1>4. ASSUME NEW ms \in SUBSET Matters, Departs(ms)
      PROVE  Goal
  BY <1>1, <1>4 DEF Departs
<1>5. ASSUME NEW s \in Sharers, PassMoves(s)
      PROVE  Goal
  BY <1>1, <1>5 DEF PassMoves, OnlyPass, people
<1>6. ASSUME NEW s \in Sharers, Invite(s)
      PROVE  Goal
  <2>1. /\ sharer[s].matter \in Matters
        /\ UNCHANGED <<assigned, active, grant, remover, raced>>
        /\ keeper' = sharer[s].matter /\ doubtful' = doubtful \ {keeper'}
    BY <1>6 DEF Invite, Placed, people
  <2>2. /\ sharer' \in [Sharers -> PassType]
        /\ share' \in ShareType /\ ids' \in Ids /\ ours' \subseteq Ids
    BY <1>6, <2>1, InviteWrites DEF OnlyPass
  <2> QED
    BY <1>1, <2>1, <2>2
<1>7. ASSUME NEW s \in Sharers, CommitShares(s)
      PROVE  Goal
  <2>1. sharer' \in [Sharers -> PassType] /\ grant' \in [Matters -> GrantType]
    BY <1>7, CommitSharesWrites DEF OnlyPass
  <2>2. /\ UNCHANGED <<assigned, active, share, ids, remover, ours, raced, keeper>>
        /\ doubtful' \subseteq Matters
    BY <1>1, <1>7 DEF CommitShares, people
  <2> QED
    BY <1>1, <2>1, <2>2
<1>8. ASSUME NEW r \in Removers, NEW m \in Matters, Checks(r, m)
      PROVE  Goal
  <2>1. /\ remover' \in [Removers -> RunType]
        /\ UNCHANGED <<assigned, active, grant, share, ids, sharer, ours, raced>>
    BY <1>8 DEF Checks, OnlyRun, people
  <2>2. Leaves(m, remover'[r].out[m] = "released")
    BY <1>8 DEF Checks
  <2>3. doubtful' \subseteq Matters /\ keeper' \in Matters \cup {NoMatter}
    BY <1>1, <2>2 DEF Leaves, LeaveTo
  <2> QED
    BY <1>1, <2>1, <2>3
<1>9. ASSUME NEW r \in Removers, Removes(r)
      PROVE  Goal
  BY <1>1, <1>9 DEF Removes, OnlyRun, people, history
<1>10. ASSUME NEW r \in Removers, Applies(r)
       PROVE  Goal
  BY <1>1, <1>10 DEF Applies, OnlyRun, people
<1> HIDE DEF Goal
<1>11. Goal
  BY <1>2, <1>3, <1>4, <1>5, <1>6, <1>7, <1>8, <1>9, <1>10, StepEffects
<1> QED
  BY <1>11, CountsTyped DEF TypeOK, Goal

(***************************************************************************)
(* Where passes and runs stand, and what has an id.                        *)
(***************************************************************************)
LEMMA PlacedStays ==
    ASSUME TypeOK, Placed, SharesAreNamed, RowsAreNamed, [Next]_vars
    PROVE  Placed'
<1> DEFINE PassPlaced(pass) ==
               /\ pass.pc \in {"invite", "record"} => pass.matter \in Matters
               /\ \A m \in Matters : pass.held[m] # NoGrant => pass.held[m].status = "active"
           RunPlaced(run) ==
               run.pc = "remove" => run.at \in Matters /\ run.out[run.at] = "todo"
           Goal == /\ \A s \in Sharers : PassPlaced(sharer'[s])
                   /\ \A r \in Removers : RunPlaced(remover'[r])
<1>1. /\ \A s \in Sharers : PassPlaced(sharer[s])
      /\ \A r \in Removers : RunPlaced(remover[r])
  BY DEF Placed, Held
<1>2. ASSUME Begins
      PROVE  Goal
  BY <1>1, <1>2, NoPassFacts DEF Begins, RunsStay
<1>3. ASSUME Turns
      PROVE  Goal
  BY <1>1, <1>3 DEF Turns, Fresh
<1>4. ASSUME NEW ms \in SUBSET Matters, Departs(ms)
      PROVE  Goal
  BY <1>1, <1>4 DEF Departs, Fresh
<1>5. ASSUME NEW s \in Sharers, PassMoves(s)
      PROVE  Goal
  BY <1>1, <1>5 DEF PassMoves, OnlyPass, Held
<1>6. ASSUME NEW s \in Sharers, Invite(s)
      PROVE  Goal
  <2>1. sharer[s].matter \in Matters /\ UNCHANGED remover
    BY <1>6 DEF Invite, Placed
  <2> QED
    BY <1>1, <1>6, <2>1, InviteWrites DEF OnlyPass
<1>7. ASSUME NEW s \in Sharers, CommitShares(s)
      PROVE  Goal
  <2>1. /\ OnlyPass(s) /\ sharer'[s].held = NoPass.held /\ UNCHANGED remover
    BY <1>7, CommitSharesWrites DEF CommitShares
  <2>2. \A m \in Matters : sharer'[s].held[m] = NoGrant
    BY <2>1, NoPassFacts
  <2> QED
    BY <1>1, <2>1, <2>2 DEF OnlyPass
<1>8. ASSUME NEW r \in Removers, NEW m \in Matters, Checks(r, m)
      PROVE  Goal
  BY <1>1, <1>8 DEF Checks, OnlyRun, Answers, Decides
<1>9. ASSUME NEW r \in Removers, Removes(r)
      PROVE  Goal
  BY <1>1, <1>9 DEF Removes, OnlyRun
<1>10. ASSUME NEW r \in Removers, Applies(r)
       PROVE  Goal
  BY <1>1, <1>10, NoRunFacts DEF Applies, OnlyRun
<1> HIDE DEF Goal
<1>11. Goal
  BY <1>2, <1>3, <1>4, <1>5, <1>6, <1>7, <1>8, <1>9, <1>10, StepEffects
<1> QED
  BY <1>11 DEF Placed, Held, Goal

LEMMA NamesStay ==
    ASSUME TypeOK, Placed, SharesAreNamed, RowsAreNamed, [Next]_vars
    PROVE  SharesAreNamed' /\ RowsAreNamed'
<1> DEFINE PassNamed(pass) ==
               /\ pass.seen.id = 0 => pass.seen \in {NoShare, Unreadable}
               /\ \A m \in Matters : LegacyOrNamed(pass.held[m])
           Goal == /\ 0 \notin ours' /\ (share'.id = 0 => share' = NoShare)
                   /\ \A s \in Sharers : PassNamed(sharer'[s])
                   /\ \A m \in Matters : LegacyOrNamed(grant'[m])
<1>1. /\ 0 \notin ours /\ (share.id = 0 => share = NoShare)
      /\ \A s \in Sharers : PassNamed(sharer[s])
      /\ \A m \in Matters : LegacyOrNamed(grant[m])
  BY DEF SharesAreNamed, RowsAreNamed
<1>2. LegacyOrNamed(NoGrant)
  BY DEF LegacyOrNamed
<1> HIDE DEF PassNamed
<1>3. ASSUME Begins
      PROVE  Goal
  <2>1. ASSUME NEW s \in Sharers, sharer'[s].held = NoPass.held, sharer'[s].seen = NoShare
        PROVE  PassNamed(sharer'[s])
    BY <1>2, <2>1, NoPassFacts DEF PassNamed
  <2> QED
    BY <1>1, <1>3, <2>1 DEF Begins, history
<1>4. ASSUME Turns
      PROVE  Goal
  BY <1>1, <1>4 DEF Turns, history
<1>5. ASSUME NEW ms \in SUBSET Matters, Departs(ms)
      PROVE  Goal
  <2>1. ASSUME NEW m \in Matters
        PROVE  LegacyOrNamed(Marked(m))
    BY <1>1, MarkedRow DEF LegacyOrNamed
  <2> QED
    BY <1>1, <1>5, <2>1 DEF Departs
<1>6. ASSUME NEW s \in Sharers, PassMoves(s)
      PROVE  Goal
  <2>1. PassNamed(sharer'[s])
    BY <1>1, <1>6 DEF PassMoves, PassNamed
  <2> QED
    BY <1>1, <1>6, <2>1 DEF PassMoves, OnlyPass
<1>7. ASSUME NEW s \in Sharers, Invite(s)
      PROVE  Goal
  <2>1. sharer[s].matter \in Matters /\ UNCHANGED grant
    BY <1>7 DEF Invite, Placed
  <2>2. PassNamed(sharer'[s])
    BY <1>1, <1>7, <2>1, InviteWrites DEF PassNamed
  <2> QED
    BY <1>1, <1>7, <2>1, <2>2, InviteWrites DEF OnlyPass
<1>8. ASSUME NEW s \in Sharers, CommitShares(s)
      PROVE  Goal
  <2>1. PassNamed(sharer'[s])
    <3>1. sharer'[s].held = NoPass.held /\ sharer'[s].seen \in {sharer[s].seen, NoShare}
      BY <1>8, CommitSharesWrites
    <3>2. \A m \in Matters : LegacyOrNamed(sharer'[s].held[m])
      BY <1>2, <3>1, NoPassFacts
    <3> QED
      BY <1>1, <3>1, <3>2 DEF PassNamed
  <2>2. \A m \in Matters : LegacyOrNamed(grant'[m])
    BY <1>1, <1>8, CommitSharesWrites DEF PassNamed
  <2> QED
    BY <1>1, <1>8, <2>1, <2>2, CommitSharesWrites DEF OnlyPass, CommitShares
<1>9. ASSUME NEW r \in Removers, NEW m \in Matters, Checks(r, m)
      PROVE  Goal
  BY <1>1, <1>9 DEF Checks
<1>10. ASSUME NEW r \in Removers, Removes(r)
       PROVE  Goal
  BY <1>1, <1>10 DEF Removes, history
<1>11. ASSUME NEW r \in Removers, Applies(r)
       PROVE  Goal
  <2>1. ASSUME NEW m \in Matters
        PROVE  LegacyOrNamed(grant'[m])
    <3>1. CASE Pending(m) /\ remover[r].out[m] \notin {"none", "failed"}
      BY <1>1, <1>11, <3>1, Nothing DEF Applies, LegacyOrNamed, Pending
    <3>2. CASE ~Pending(m) \/ remover[r].out[m] \in {"none", "failed"}
      BY <1>1, <1>11, <3>2 DEF Applies
    <3> QED
      BY <3>1, <3>2
  <2> QED
    BY <1>1, <1>11, <2>1 DEF Applies
<1> HIDE DEF Goal
<1>12. Goal
  BY <1>3, <1>4, <1>5, <1>6, <1>7, <1>8, <1>9, <1>10, <1>11, StepEffects
<1> QED
  BY <1>12 DEF SharesAreNamed, RowsAreNamed, PassNamed, Goal

(***************************************************************************)
(* What a person leaves behind, and the rows they are asked by.            *)
(***************************************************************************)

\* Passes a commit leaves work on nothing new.
LEMMA CommitWorks ==
    ASSUME TypeOK, NEW s \in Sharers, CommitShares(s), NEW m \in Matters
    PROVE  /\ Works(s, m)' => Works(s, m)
           /\ ~Held(s, m)' /\ ~InvitedBy(s, m)'
           /\ grant'[m] = IF Held(s, m) THEN sharer[s].held[m] ELSE grant[m]
           /\ \A v \in Sharers \ {s} : sharer'[v] = sharer[v]
<1>1. /\ OnlyPass(s) /\ sharer[s].pc # "record" /\ sharer'[s].pc \in {"list", "idle"}
      /\ sharer'[s].todo \subseteq sharer[s].todo
      /\ sharer'[s].matter \in {sharer[s].matter, NoMatter}
      /\ sharer'[s].held = NoPass.held
      /\ grant'[m] = IF Held(s, m) THEN sharer[s].held[m] ELSE grant[m]
  BY CommitSharesWrites
<1>2. ~Held(s, m)' /\ NoMatter \notin Matters
  BY <1>1, NoPassFacts, Nothing DEF Held
<1> QED
  BY <1>1, <1>2 DEF Works, InvitedBy, OnlyPass

\* Neither does an invite.
LEMMA InviteWorks ==
    ASSUME TypeOK, Placed, SharesAreNamed, NEW s \in Sharers, Invite(s), NEW m \in Matters
    PROVE  /\ Works(s, m)' <=> Works(s, m)
           /\ InvitedBy(s, m) => InvitedBy(s, m)'
           /\ sharer[s].matter \in Matters /\ Works(s, sharer[s].matter)
           /\ keeper' = sharer[s].matter /\ InvitedBy(s, keeper)'
           /\ \A v \in Sharers \ {s} : sharer'[v] = sharer[v]
<1>1. /\ sharer[s].pc = "invite" /\ sharer[s].matter \in Matters
      /\ keeper' = sharer[s].matter
  BY DEF Invite, Placed
<1> QED
  BY <1>1, InviteWrites DEF Works, InvitedBy, Held, OnlyPass

LEMMA LeftBehindStays ==
    ASSUME TypeOK, Placed, SharesAreNamed, RowsAreNamed, LeftBehind, [Next]_vars
    PROVE  LeftBehind'
<1> DEFINE Clear(m) == /\ grant[m].status # "active"
                       /\ \A s \in Sharers : ~Works(s, m)
                       /\ \A r \in Removers : remover[r].out[m] # "restored"
<1> SUFFICES ASSUME NEW m \in Matters, ~Entitled(m)', m \notin raced'
             PROVE  Clear(m)'
  BY DEF LeftBehind
<1>1. ~Entitled(m) /\ m \notin raced => Clear(m)
  BY DEF LeftBehind
<1>2. CASE Begins
  <2>1. ~Entitled(m) /\ m \notin raced
    BY <1>2 DEF Begins, history
  <2>2. \A s \in Sharers : ~Works(s, m)'
    BY <1>1, <1>2, <2>1, NoPassFacts, Nothing DEF Begins, Works, Held
  <2> QED
    BY <1>1, <1>2, <2>1, <2>2 DEF Begins, RunsStay
<1>3. CASE Turns
  <2>1. ~Entitled(m) /\ m \notin raced
    BY <1>3 DEF Turns, people, history, Entitled
  <2> QED
    BY <1>1, <1>3, <2>1 DEF Turns, Fresh, Works, Held
<1>4. ASSUME NEW ms \in SUBSET Matters, Departs(ms)
      PROVE  Clear(m)'
  <2>1. CASE m \in ms
    <3>1. ~InHand(m)
      BY <1>4, <2>1 DEF Departs
    <3>2. /\ \A s \in Sharers : ~Works(s, m)
          /\ \A r \in Removers : remover[r].out[m] = "none"
      BY <3>1 DEF InHand, Works
    <3>3. Marked(m).status # "active"
      BY MarkedRow
    <3> QED
      BY <1>4, <2>1, <3>2, <3>3 DEF Departs, Fresh, Works, Held
  <2>2. CASE m \notin ms
    <3>1. ~Entitled(m) /\ m \notin raced
      BY <1>4, <2>2 DEF Departs
    <3> QED
      BY <1>1, <1>4, <2>2, <3>1 DEF Departs, Fresh, Works, Held
  <2> QED
    BY <2>1, <2>2
<1>5. ASSUME NEW s \in Sharers, PassMoves(s)
      PROVE  Clear(m)'
  <2>1. ~Entitled(m) /\ m \notin raced
    BY <1>5 DEF PassMoves, people, Entitled
  <2>2. \A v \in Sharers : ~Works(v, m)'
    BY <1>1, <1>5, <2>1 DEF PassMoves, OnlyPass, Works, Held
  <2> QED
    BY <1>1, <1>5, <2>1, <2>2 DEF PassMoves
<1>6. ASSUME NEW s \in Sharers, Invite(s)
      PROVE  Clear(m)'
  <2>1. ~Entitled(m) /\ m \notin raced /\ UNCHANGED <<grant, remover>>
    BY <1>6 DEF Invite, people, Entitled
  <2>2. \A v \in Sharers : ~Works(v, m)'
    BY <1>1, <1>6, <2>1, InviteWorks DEF Works, Held
  <2> QED
    BY <1>1, <2>1, <2>2
<1>7. ASSUME NEW s \in Sharers, CommitShares(s)
      PROVE  Clear(m)'
  <2>1. ~Entitled(m) /\ m \notin raced /\ UNCHANGED remover
    BY <1>7 DEF CommitShares, people, Entitled
  <2>2. /\ \A v \in Sharers : ~Works(v, m)'
        /\ grant'[m] = grant[m]
    BY <1>1, <1>7, <2>1, CommitWorks DEF Works, Held
  <2> QED
    BY <1>1, <2>1, <2>2
<1>8. ASSUME NEW r \in Removers, NEW n \in Matters, Checks(r, n)
      PROVE  Clear(m)'
  <2>1. /\ ~Entitled(m) /\ m \notin raced /\ UNCHANGED <<grant, sharer>>
        /\ OnlyRun(r) /\ Answers(r, n)
    BY <1>8 DEF Checks, people, Entitled
  <2>2. \A v \in Removers : remover'[v].out[m] # "restored"
    BY <1>1, <2>1 DEF OnlyRun, Answers, Decides, StillEntitled
  <2> QED
    BY <1>1, <2>1, <2>2 DEF Works, Held
<1>9. ASSUME NEW r \in Removers, Removes(r)
      PROVE  Clear(m)'
  <2>1. /\ ~Entitled(m) /\ m \notin raced /\ UNCHANGED <<grant, sharer>>
    BY <1>9 DEF Removes, people, history, Entitled
  <2>2. \A v \in Removers : remover'[v].out[m] # "restored"
    BY <1>1, <1>9, <2>1 DEF OnlyRun, Removes, Decides
  <2> QED
    BY <1>1, <2>1, <2>2 DEF Works, Held
<1>10. ASSUME NEW r \in Removers, Applies(r)
       PROVE  Clear(m)'
  <2>1. /\ ~Entitled(m) /\ m \notin raced /\ UNCHANGED sharer
    BY <1>10 DEF Applies, people, Entitled
  <2>2. \A v \in Removers : remover'[v].out[m] # "restored"
    BY <1>1, <1>10, <2>1, NoRunFacts DEF OnlyRun, Applies
  <2>3. grant'[m].status # "active"
    BY <1>1, <1>10, <2>1 DEF Applies
  <2> QED
    BY <1>1, <2>1, <2>2, <2>3 DEF Works, Held
<1> HIDE DEF Clear
<1> QED
  BY <1>2, <1>3, <1>4, <1>5, <1>6, <1>7, <1>8, <1>9, <1>10, StepEffects

LEMMA RowOnLeavingStays ==
    ASSUME TypeOK, Placed, SharesAreNamed, RowsAreNamed, RowOnLeaving, [Next]_vars
    PROVE  RowOnLeaving'
<1> DEFINE Safe(m) == /\ \/ Entitled(m)
                         \/ m # keeper /\ \A s \in Sharers : ~Works(s, m)
                      /\ \A r \in Removers : remover[r].out[m] = "none"
<1> SUFFICES ASSUME NEW m \in Matters, grant'[m] = NoGrant
             PROVE  Safe(m)'
  BY DEF RowOnLeaving
<1>1. grant[m] = NoGrant => Safe(m)
  BY DEF RowOnLeaving
<1>2. CASE Begins
  <2>1. /\ grant[m] = NoGrant /\ keeper' = keeper
        /\ Entitled(m) => Entitled(m)'
        /\ \A r \in Removers : remover'[r].out[m] = remover[r].out[m]
    BY <1>2 DEF Begins, history, RunsStay
  <2>2. ASSUME NEW s \in Sharers, Works(s, m)', ~Entitled(m)'
        PROVE  Works(s, m)
    BY <1>2, <2>2, NoPassFacts, Nothing DEF Begins, Works, Held
  <2> QED
    BY <1>1, <2>1, <2>2
<1>3. CASE Turns
  <2>1. /\ grant[m] = NoGrant /\ UNCHANGED <<sharer, keeper>>
        /\ Entitled(m)' <=> Entitled(m)
    BY <1>3 DEF Turns, people, history, Entitled
  <2>2. \A r \in Removers : remover'[r].out[m] = "none"
    BY <1>1, <1>3, <2>1, Nothing DEF Turns, Fresh
  <2> QED
    BY <1>1, <2>1, <2>2 DEF Works, Held
<1>4. ASSUME NEW ms \in SUBSET Matters, Departs(ms)
      PROVE  Safe(m)'
  <2>1. Marked(m) # NoGrant
    BY MarkedRow, Nothing
  <2>2. /\ m \notin ms /\ grant[m] = NoGrant /\ UNCHANGED <<sharer, keeper>>
        /\ Entitled(m)' <=> Entitled(m)
    BY <1>4, <2>1 DEF Departs
  <2>3. \A r \in Removers : remover'[r].out[m] = "none"
    BY <1>1, <1>4, <2>2, Nothing DEF Departs, Fresh
  <2> QED
    BY <1>1, <2>2, <2>3 DEF Works, Held
<1>5. ASSUME NEW s \in Sharers, PassMoves(s)
      PROVE  Safe(m)'
  <2>1. /\ grant[m] = NoGrant /\ UNCHANGED <<remover, keeper>>
        /\ Entitled(m)' <=> Entitled(m)
    BY <1>5 DEF PassMoves, people, Entitled
  <2>2. \A v \in Sharers : Works(v, m)' => Works(v, m)
    BY <1>5 DEF PassMoves, OnlyPass, Works, Held
  <2> QED
    BY <1>1, <2>1, <2>2
<1>6. ASSUME NEW s \in Sharers, Invite(s)
      PROVE  Safe(m)'
  <2>1. /\ grant[m] = NoGrant /\ UNCHANGED remover /\ keeper' = sharer[s].matter
        /\ Entitled(m)' <=> Entitled(m)
    BY <1>6 DEF Invite, people, Entitled
  <2>2. /\ \A v \in Sharers : Works(v, m)' => Works(v, m)
        /\ Works(s, keeper')
    BY <1>6, <2>1, InviteWorks DEF Works, Held
  <2> QED
    BY <1>1, <2>1, <2>2
<1>7. ASSUME NEW s \in Sharers, CommitShares(s)
      PROVE  Safe(m)'
  <2>1. /\ UNCHANGED <<remover, keeper>>
        /\ Entitled(m)' <=> Entitled(m)
    BY <1>7 DEF CommitShares, people, Entitled
  <2>2. /\ grant[m] = NoGrant
        /\ \A v \in Sharers : Works(v, m)' => Works(v, m)
    BY <1>7, CommitWorks DEF Works, Held
  <2> QED
    BY <1>1, <2>1, <2>2
<1>8. ASSUME NEW r \in Removers, NEW n \in Matters, Checks(r, n)
      PROVE  Safe(m)'
  <2>1. /\ grant[m] = NoGrant /\ UNCHANGED sharer
        /\ Entitled(m)' <=> Entitled(m)
        /\ OnlyRun(r) /\ Answers(r, n) /\ remover[r].out[n] = "todo"
        /\ Leaves(n, remover'[r].out[n] = "released")
    BY <1>8 DEF Checks, people, Entitled
  <2>2. \A v \in Removers : remover'[v].out[m] = "none"
    BY <1>1, <2>1 DEF OnlyRun, Answers, Decides
  <2>3. keeper' = m => Entitled(m) \/ keeper = m
    BY <2>1, Nothing DEF Leaves, LeaveTo
  <2> QED
    BY <1>1, <2>1, <2>2, <2>3 DEF Works, Held
<1>9. ASSUME NEW r \in Removers, Removes(r)
      PROVE  Safe(m)'
  <2>1. /\ grant[m] = NoGrant /\ UNCHANGED <<sharer, keeper>>
        /\ Entitled(m)' <=> Entitled(m)
    BY <1>9 DEF Removes, people, history, Entitled
  <2>2. remover[r].at \in Matters /\ remover[r].out[remover[r].at] = "todo"
    BY <1>9 DEF Removes, Placed
  <2>3. \A v \in Removers : remover'[v].out[m] = "none"
    BY <1>1, <1>9, <2>1, <2>2 DEF OnlyRun, Removes, Decides
  <2> QED
    BY <1>1, <2>1, <2>3 DEF Works, Held
<1>10. ASSUME NEW r \in Removers, Applies(r)
       PROVE  Safe(m)'
  <2>1. /\ UNCHANGED <<sharer, keeper>>
        /\ Entitled(m)' <=> Entitled(m)
    BY <1>10 DEF Applies, people, Entitled
  <2>2. grant[m] = NoGrant
    BY <1>10, Nothing DEF Applies
  <2>3. \A v \in Removers : remover'[v].out[m] = "none"
    BY <1>1, <1>10, <2>2, NoRunFacts DEF OnlyRun, Applies
  <2> QED
    BY <1>1, <2>1, <2>2, <2>3 DEF Works, Held
<1> HIDE DEF Safe
<1> QED
  BY <1>2, <1>3, <1>4, <1>5, <1>6, <1>7, <1>8, <1>9, <1>10, StepEffects

LEMMA RemovalStaysDue ==
    ASSUME TypeOK, Placed, SharesAreNamed, RowsAreNamed, RemovalWasDue, [Next]_vars
    PROVE  RemovalWasDue'
<1> DEFINE Due(r) == remover[r].pc = "remove" /\ (\E m \in Matters : Entitled(m))
                     => remover[r].back
<1> SUFFICES ASSUME NEW r \in Removers
             PROVE  Due(r)'
  BY DEF RemovalWasDue
<1>1. Due(r)
  BY DEF RemovalWasDue
<1>2. CASE Begins
  BY <1>1, <1>2 DEF Begins, RunsStay
<1>3. CASE Turns
  BY <1>1, <1>3 DEF Turns, Fresh, people, Entitled
<1>4. ASSUME NEW ms \in SUBSET Matters, Departs(ms)
      PROVE  Due(r)'
  BY <1>1, <1>4 DEF Departs, Fresh
<1>5. ASSUME NEW s \in Sharers, PassMoves(s) \/ Invite(s) \/ CommitShares(s)
      PROVE  Due(r)'
  <2>1. UNCHANGED <<assigned, active, remover>>
    BY <1>5 DEF PassMoves, Invite, CommitShares, people
  <2> QED
    BY <1>1, <2>1 DEF Entitled
<1>6. ASSUME NEW v \in Removers, NEW n \in Matters, Checks(v, n)
      PROVE  Due(r)'
  <2>1. /\ UNCHANGED <<assigned, active>> /\ OnlyRun(v) /\ Answers(v, n)
    BY <1>6 DEF Checks, people
  <2>2. CASE r # v
    BY <1>1, <2>1, <2>2 DEF OnlyRun, Entitled
  <2>3. CASE r = v
    BY <2>1, <2>3 DEF Answers, StillEntitled, NeededElsewhere, Entitled
  <2> QED
    BY <2>2, <2>3
<1>7. ASSUME NEW v \in Removers, Removes(v)
      PROVE  Due(r)'
  BY <1>1, <1>7 DEF Removes, OnlyRun, people, Entitled
<1>8. ASSUME NEW v \in Removers, Applies(v)
      PROVE  Due(r)'
  BY <1>1, <1>8, NoRunFacts DEF Applies, OnlyRun, people, Entitled
<1> HIDE DEF Due
<1> QED
  BY <1>2, <1>3, <1>4, <1>5, <1>6, <1>7, <1>8, StepEffects

LEMMA RunsStillKnow ==
    ASSUME TypeOK, Placed, SharesAreNamed, RowsAreNamed, RowOnLeaving, RunsKnowTheRow,
           [Next]_vars
    PROVE  RunsKnowTheRow'
<1> SUFFICES ASSUME NEW r \in Removers, NEW m \in Matters,
                    remover'[r].out[m] # "none", grant'[m].status = "revoke_pending",
                    m \notin doubtful', \A s \in Sharers : ~InvitedBy(s, m)'
             PROVE  remover'[r].id[m] = grant'[m].id
  BY DEF RunsKnowTheRow, Pending, Invited, InvitedBy
<1>1. /\ remover[r].out[m] # "none" /\ Pending(m) /\ m \notin doubtful
      /\ \A s \in Sharers : ~InvitedBy(s, m)
      => remover[r].id[m] = grant[m].id
  BY DEF RunsKnowTheRow, Invited, InvitedBy
<1>2. CASE Begins
  <2>1. /\ UNCHANGED <<grant, doubtful>>
        /\ remover'[r].out = remover[r].out /\ remover'[r].id = remover[r].id
    BY <1>2 DEF Begins, history, RunsStay
  <2>2. \A s \in Sharers : ~InvitedBy(s, m)
    BY <1>2, NoPassFacts DEF Begins, InvitedBy, Held
  <2> QED
    BY <1>1, <2>1, <2>2 DEF Pending
<1>3. CASE Turns
  <2>1. UNCHANGED <<grant, doubtful, sharer>>
    BY <1>3 DEF Turns, history
  <2>2. CASE remover'[r] = remover[r]
    BY <1>1, <2>1, <2>2 DEF Pending, InvitedBy, Held
  <2>3. CASE Fresh(remover'[r], grant)
    BY <2>1, <2>3 DEF Fresh
  <2> QED
    BY <1>3, <2>2, <2>3 DEF Turns
<1>4. ASSUME NEW ms \in SUBSET Matters, Departs(ms)
      PROVE  remover'[r].id[m] = grant'[m].id
  <2>1. UNCHANGED sharer /\ m \notin doubtful /\ (m \in ms => ~InHand(m))
    BY <1>4 DEF Departs
  <2>2. CASE remover'[r] = remover[r]
    <3>1. m \notin ms
      BY <2>1, <2>2 DEF InHand
    <3>2. grant'[m] = grant[m]
      BY <1>4, <3>1 DEF Departs
    <3> QED
      BY <1>1, <2>1, <2>2, <3>2 DEF Pending, InvitedBy, Held
  <2>3. CASE Fresh(remover'[r], grant')
    BY <2>3 DEF Fresh
  <2> QED
    BY <1>4, <2>2, <2>3 DEF Departs
<1>5. ASSUME NEW s \in Sharers, PassMoves(s)
      PROVE  remover'[r].id[m] = grant'[m].id
  <2>1. UNCHANGED <<grant, remover>> /\ m \notin doubtful
    BY <1>5 DEF PassMoves
  <2>2. \A v \in Sharers : ~InvitedBy(v, m)
    BY <1>5, <2>1, Nothing DEF PassMoves, OnlyPass, InvitedBy, Held
  <2> QED
    BY <1>1, <2>1, <2>2 DEF Pending
<1>6. ASSUME NEW s \in Sharers, Invite(s)
      PROVE  remover'[r].id[m] = grant'[m].id
  <2>1. /\ UNCHANGED <<grant, remover>> /\ keeper' = sharer[s].matter
        /\ doubtful' = doubtful \ {keeper'}
    BY <1>6 DEF Invite
  <2>2. /\ InvitedBy(s, m) => InvitedBy(s, m)'
        /\ InvitedBy(s, keeper)'
        /\ \A v \in Sharers \ {s} : sharer'[v] = sharer[v]
    BY <1>6, InviteWorks
  <2>3. m # keeper'
    BY <2>2 DEF InvitedBy, Held
  <2>4. \A v \in Sharers : ~InvitedBy(v, m)
    BY <2>2 DEF InvitedBy, Held
  <2> QED
    BY <1>1, <2>1, <2>3, <2>4 DEF Pending
<1>7. ASSUME NEW s \in Sharers, CommitShares(s)
      PROVE  remover'[r].id[m] = grant'[m].id
  <2>1. /\ UNCHANGED remover /\ m \notin doubtful
        /\ Held(s, m) => sharer[s].held[m].status = "active"
    BY <1>7 DEF CommitShares, Placed
  <2>2. ~Held(s, m) /\ grant'[m] = grant[m]
    BY <1>7, <2>1, CommitWorks
  <2>3. sharer[s].pc # "record"
    BY <1>7 DEF CommitShares
  <2>4. \A v \in Sharers : ~InvitedBy(v, m)
    BY <1>7, <2>2, <2>3, CommitWorks DEF InvitedBy, Held
  <2> QED
    BY <1>1, <2>1, <2>2, <2>4 DEF Pending
<1>8. ASSUME NEW v \in Removers, NEW n \in Matters, Checks(v, n)
      PROVE  remover'[r].id[m] = grant'[m].id
  <2>1. /\ UNCHANGED <<grant, sharer>> /\ OnlyRun(v) /\ Answers(v, n)
        /\ remover[v].out[n] = "todo" /\ Leaves(n, remover'[v].out[n] = "released")
    BY <1>8 DEF Checks
  <2>2. m \notin doubtful
    BY <2>1 DEF Leaves, LeaveTo
  <2>3. remover'[r].id = remover[r].id /\ remover[r].out[m] # "none"
    BY <2>1 DEF OnlyRun, Answers, Decides
  <2> QED
    BY <1>1, <2>1, <2>2, <2>3 DEF Pending, InvitedBy, Held
<1>9. ASSUME NEW v \in Removers, Removes(v)
      PROVE  remover'[r].id[m] = grant'[m].id
  <2>1. UNCHANGED <<grant, sharer, doubtful>>
    BY <1>9 DEF Removes, history
  <2>2. remover[v].at \in Matters /\ remover[v].out[remover[v].at] = "todo"
    BY <1>9 DEF Removes, Placed
  <2>3. remover'[r].id = remover[r].id /\ remover[r].out[m] # "none"
    BY <1>9, <2>2 DEF Removes, OnlyRun, Decides
  <2> QED
    BY <1>1, <2>1, <2>3 DEF Pending, InvitedBy, Held
<1>10. ASSUME NEW v \in Removers, Applies(v)
       PROVE  remover'[r].id[m] = grant'[m].id
  <2>1. UNCHANGED sharer /\ m \notin doubtful
    BY <1>10 DEF Applies
  <2>2. remover'[r] = remover[r]
    BY <1>10, NoRunFacts DEF Applies, OnlyRun
  <2>3. grant'[m] = grant[m]
    BY <1>10 DEF Applies
  <2> QED
    BY <1>1, <2>1, <2>2, <2>3 DEF Pending, InvitedBy, Held
<1> QED
  BY <1>2, <1>3, <1>4, <1>5, <1>6, <1>7, <1>8, <1>9, <1>10, StepEffects

(***************************************************************************)
(* Somebody's leaving will take the share back.                            *)
(***************************************************************************)

\* What is known of the keeper.
Tale(m) ==
    \/ m \in doubtful \/ Mistaken(m) \/ Invited(m)
    \/ Tells(m) /\ (Pending(m) => Entitled(m) \/ Undecided(m))

\* It stays as it is while the row, the share, the keeper's passes and what
\* the runs decided about it do.
LEMMA TaleStays ==
    ASSUME NEW m \in Matters, Tale(m), grant'[m] = grant[m], share' = share,
           m \in doubtful => m \in doubtful',
           Invited(m) => Invited(m)' \/ m \in doubtful' \/ grant[m] = NoGrant,
           Pending(m) /\ (Entitled(m) \/ Undecided(m)) =>
               Entitled(m)' \/ Undecided(m)' \/ m \in doubtful' \/ Mistaken(m)
    PROVE  Tale(m)'
<1>1. /\ Mistaken(m)' <=> Mistaken(m)
      /\ Tells(m)' <=> Tells(m)
      /\ Pending(m)' <=> Pending(m)
  BY DEF Mistaken, Tells, Pending
<1>2. grant[m] = NoGrant => Tells(m) /\ ~Pending(m)
  BY Nothing DEF Tells, Pending
<1> QED
  BY <1>1, <1>2 DEF Tale

LEMMA KeeperStillTells ==
    ASSUME TypeOK, Placed, SharesAreNamed, RowsAreNamed, RowOnLeaving, RunsKnowTheRow,
           KeeperTells, [Next]_vars
    PROVE  KeeperTells'
<1> SUFFICES ASSUME share'.id \in ours'
             PROVE  keeper' \in Matters /\ Tale(keeper)'
  BY DEF KeeperTells, Tale
<1> DEFINE k == keeper
           Goal == keeper' \in Matters /\ Tale(keeper)'
<1>1. share.id \in ours => k \in Matters /\ Tale(k)
  BY DEF KeeperTells, Tale
<1>2. ASSUME Begins
      PROVE  Goal
  <2>1. /\ UNCHANGED <<grant, share, ours, doubtful, keeper>> /\ k \in Matters /\ Tale(k)
        /\ Entitled(k) => Entitled(k)'
    BY <1>1, <1>2 DEF Begins, history
  <2>2. Invited(k) => Invited(k)'
    BY <1>2, <2>1, NoPassFacts DEF Begins, Invited, Held
  <2>3. Undecided(k) => Undecided(k)'
    BY <1>2, <2>1 DEF Begins, RunsStay, Undecided
  <2>4. Tale(k)'
    BY <2>1, <2>2, <2>3, TaleStays
  <2> QED
    BY <2>1, <2>4
<1>3. ASSUME Turns
      PROVE  Goal
  <2>1. /\ UNCHANGED <<grant, share, ours, doubtful, keeper, sharer>>
        /\ k \in Matters /\ Tale(k) /\ (Entitled(k) => Entitled(k)')
    BY <1>1, <1>3 DEF Turns, history, people, Entitled
  <2>2. Invited(k) => Invited(k)'
    BY <2>1 DEF Invited, Held
  <2>3. Undecided(k) => Undecided(k)'
    BY <1>3, <2>1 DEF Turns, Fresh, Undecided
  <2>4. Tale(k)'
    BY <2>1, <2>2, <2>3, TaleStays
  <2> QED
    BY <2>1, <2>4
<1>4. ASSUME NEW ms \in SUBSET Matters, Departs(ms)
      PROVE  Goal
  <2>1. /\ UNCHANGED <<share, sharer, ours, keeper>> /\ k \in Matters /\ Tale(k)
        /\ doubtful \subseteq doubtful' /\ (k \in ms /\ InHand(k) => k \in doubtful')
    BY <1>1, <1>4 DEF Departs
  <2>2. Invited(k) => Invited(k)'
    BY <2>1 DEF Invited, Held
  <2>3. CASE k \notin ms
    <3>1. grant'[k] = grant[k] /\ (Entitled(k) => Entitled(k)')
      BY <1>4, <2>1, <2>3 DEF Departs
    <3>2. Undecided(k) => Undecided(k)'
      BY <1>4, <2>1 DEF Departs, Fresh, Undecided
    <3>3. Tale(k)'
      BY <2>1, <2>2, <3>1, <3>2, TaleStays
    <3> QED
      BY <2>1, <3>3
  <2>4. CASE k \in doubtful \/ (k \in ms /\ InHand(k))
    <3>1. keeper' \in doubtful'
      BY <2>1, <2>4
    <3> QED
      BY <2>1, <3>1 DEF Tale
  <2>5. CASE Invited(k)
    BY <2>1, <2>2, <2>5 DEF Tale
  <2>6. CASE k \in ms /\ Mistaken(k)
    <3>1. grant'[k] = Marked(k) /\ grant[k] # NoGrant
      BY <1>4, <2>1, <2>6, Nothing DEF Departs, Mistaken
    <3>2. Marked(k).origin = grant[k].origin /\ Marked(k).id = grant[k].id
      BY <2>1, <3>1, MarkedRow
    <3>3. Mistaken(k)'
      BY <2>1, <2>6, <3>1, <3>2 DEF Mistaken
    <3> QED
      BY <2>1, <3>3 DEF Tale
  <2>7. CASE k \in ms /\ ~InHand(k) /\ Tells(k)
    <3>1. grant'[k] = Marked(k)
      BY <1>4, <2>1, <2>7 DEF Departs
    <3>2. Undecided(k)'
      BY <1>4, <2>1, <2>7 DEF Departs, Fresh, Undecided, InHand
    <3>3. CASE grant[k] = NoGrant
      <4>1. Tells(k)'
        BY <2>1, <3>1, <3>3, MarkedRow DEF Tells
      <4> QED
        BY <2>1, <3>2, <4>1 DEF Tale
    <3>4. CASE /\ grant[k] # NoGrant
               /\ grant[k].origin = "preexisting" /\ grant[k].status = "active"
      <4>1. grant[k].id = share.id
        BY <2>1, <2>7, <3>4 DEF Tells, RowsAreNamed, LegacyOrNamed
      <4>2. Mistaken(k)'
        BY <2>1, <3>1, <3>4, <4>1, MarkedRow DEF Mistaken
      <4> QED
        BY <2>1, <4>2 DEF Tale
    <3>5. CASE /\ grant[k] # NoGrant
               /\ ~(grant[k].origin = "preexisting" /\ grant[k].status = "active")
      <4>1. /\ grant'[k].status = "revoke_pending" /\ grant'[k].id = grant[k].id
            /\ grant[k].id \in {0, share.id}
        BY <2>1, <2>7, <3>1, <3>5, MarkedRow DEF Tells
      <4>2. Tells(k)'
        BY <2>1, <4>1 DEF Tells
      <4> QED
        BY <2>1, <3>2, <4>2 DEF Tale
    <3> QED
      BY <3>3, <3>4, <3>5
  <2> QED
    BY <2>1, <2>3, <2>4, <2>5, <2>6, <2>7 DEF Tale
<1>5. ASSUME NEW s \in Sharers, PassMoves(s)
      PROVE  Goal
  <2>1. /\ UNCHANGED <<grant, share, ours, keeper, remover>> /\ k \in Matters /\ Tale(k)
        /\ doubtful \subseteq doubtful' /\ (Entitled(k) => Entitled(k)')
    BY <1>1, <1>5 DEF PassMoves, people, Entitled
  <2>2. Invited(k) => Invited(k)' \/ k \in doubtful' \/ grant[k] = NoGrant
    BY <1>5, <2>1 DEF PassMoves, OnlyPass, Invited, InvitedBy, Held
  <2>3. Undecided(k) => Undecided(k)'
    BY <2>1 DEF Undecided
  <2>4. Tale(k)'
    BY <2>1, <2>2, <2>3, TaleStays
  <2> QED
    BY <2>1, <2>4
<1>6. ASSUME NEW s \in Sharers, Invite(s)
      PROVE  Goal
  <2>1. sharer[s].matter \in Matters
    BY <1>6 DEF Invite, Placed
  <2>2. keeper' \in Matters /\ InvitedBy(s, keeper)'
    BY <1>6, <2>1, InviteWorks
  <2>3. Invited(keeper)'
    BY <2>2 DEF Invited, InvitedBy
  <2> QED
    BY <2>2, <2>3 DEF Tale
<1>7. ASSUME NEW s \in Sharers, CommitShares(s)
      PROVE  Goal
  <2>1. /\ UNCHANGED <<assigned, active, share, ours, keeper, remover>>
        /\ k \in Matters /\ Tale(k) /\ (Entitled(k) => Entitled(k)')
        /\ doubtful' = doubtful \cup {m \in Matters : /\ Held(s, m)
                                                     /\ grant'[m].id \notin {0, share.id}}
        /\ sharer[s].pc # "record"
        /\ Held(s, k) => sharer[s].held[k].status = "active"
    BY <1>1, <1>7 DEF CommitShares, people, Entitled, Placed
  <2>2. /\ grant'[k] = IF Held(s, k) THEN sharer[s].held[k] ELSE grant[k]
        /\ \A v \in Sharers \ {s} : sharer'[v] = sharer[v]
    BY <1>7, <2>1, CommitWorks
  <2>3. CASE Held(s, k)
    <3>1. grant'[k].status = "active"
      BY <2>1, <2>2, <2>3
    <3>2. CASE grant'[k].id \in {0, share.id}
      <4>1. Tells(k)' /\ ~Pending(k)'
        BY <2>1, <3>1, <3>2 DEF Tells, Pending
      <4> QED
        BY <2>1, <4>1 DEF Tale
    <3>3. CASE grant'[k].id \notin {0, share.id}
      <4>1. keeper' \in doubtful'
        BY <2>1, <2>3, <3>3
      <4> QED
        BY <2>1, <4>1 DEF Tale
    <3> QED
      BY <3>2, <3>3
  <2>4. CASE ~Held(s, k)
    <3>1. Invited(k) => Invited(k)'
      BY <2>1, <2>2, <2>4 DEF Invited, Held
    <3>2. Undecided(k) => Undecided(k)'
      BY <2>1 DEF Undecided
    <3>3. Tale(k)'
      BY <2>1, <2>2, <2>4, <3>1, <3>2, TaleStays
    <3> QED
      BY <2>1, <3>3
  <2> QED
    BY <2>3, <2>4
<1>8. ASSUME NEW r \in Removers, NEW m \in Matters, Checks(r, m)
      PROVE  Goal
  <2>1. /\ UNCHANGED <<grant, share, sharer, ours>> /\ k \in Matters /\ Tale(k)
        /\ OnlyRun(r) /\ Answers(r, m) /\ remover[r].out[m] = "todo"
        /\ Leaves(m, remover'[r].out[m] = "released")
        /\ \A n \in Matters : Entitled(n)' <=> Entitled(n)
    BY <1>1, <1>8 DEF Checks, people, Entitled
  <2>2. CASE remover'[r].out[m] = "released" /\ m = k
    <3>1. PICK n \in Matters : (grant[n].status = "active" \/ Entitled(n)) /\ LeaveTo(n)
      BY <2>1, <2>2 DEF Leaves
    <3>2. keeper' = n /\ (Tells(n) \/ n \in doubtful')
      BY <3>1 DEF LeaveTo
    <3>3. Tells(n) => Tells(keeper)'
      BY <2>1, <3>2 DEF Tells
    <3>4. Pending(keeper)' => Entitled(keeper)'
      BY <2>1, <3>1, <3>2 DEF Pending, Entitled
    <3>5. keeper' \in Matters /\ (Tells(keeper)' \/ keeper' \in doubtful')
      BY <3>1, <3>2, <3>3
    <3> QED
      BY <3>4, <3>5 DEF Tale
  <2>3. CASE ~(remover'[r].out[m] = "released" /\ m = k)
    <3>1. UNCHANGED <<doubtful, keeper>>
      BY <2>1, <2>3 DEF Leaves
    <3>2. Invited(k) => Invited(k)'
      BY <2>1, <3>1 DEF Invited, Held
    <3>3. Undecided(k) => Undecided(k)' \/ Entitled(k)
      BY <2>1, <2>3, <3>1 DEF OnlyRun, Answers, Decides, Undecided, StillEntitled
    <3>4. Entitled(k) => Entitled(k)'
      BY <2>1, <3>1
    <3>5. Tale(k)'
      BY <2>1, <3>1, <3>2, <3>3, <3>4, TaleStays
    <3> QED
      BY <2>1, <3>1, <3>5
  <2> QED
    BY <2>2, <2>3
<1>9. ASSUME NEW r \in Removers, Removes(r)
      PROVE  Goal
  <2> DEFINE at == remover[r].at
  <2>1. /\ UNCHANGED <<grant, sharer, ours, doubtful, keeper>>
        /\ Entitled(k) => Entitled(k)'
        /\ remover[r].pc = "remove" /\ OnlyRun(r)
    BY <1>9 DEF Removes, people, history, Entitled
  <2>2. at \in Matters /\ remover[r].out[at] = "todo"
    BY <2>1 DEF Placed
  <2>3. share' = share
    BY <1>9, <2>1, Nothing DEF Removes, SharesAreNamed
  <2>4. k \in Matters /\ Tale(k)
    BY <1>1, <2>1, <2>3
  <2>5. Invited(k) => Invited(k)'
    BY <2>1 DEF Invited, Held
  <2>6. CASE at # k \/ Decides(r, at, "failed")
    <3>1. Undecided(k) => Undecided(k)'
      BY <1>9, <2>1, <2>2, <2>4, <2>6 DEF Removes, OnlyRun, Decides, Undecided
    <3>2. Tale(k)'
      BY <2>1, <2>3, <2>4, <2>5, <3>1, TaleStays
    <3> QED
      BY <2>1, <2>4, <3>2
  <2>7. CASE at = k /\ Decides(r, at, "revoked")
    <3>1. share # NoShare
      BY <2>1, <2>3, Nothing DEF SharesAreNamed
    <3>2. ~Removable(r, k)
      BY <1>9, <2>3, <2>7, <3>1 DEF Removes, Decides
    <3>3. ASSUME Tells(k), Pending(k), k \notin doubtful, ~Invited(k)
          PROVE  Mistaken(k)
      <4>1. remover[r].id[k] = grant[k].id
        BY <2>2, <2>4, <2>7, <3>3 DEF RunsKnowTheRow
      <4>2. grant[k].id \in {0, share.id} /\ grant[k] # NoGrant
        BY <3>3, Nothing DEF Tells, Pending
      <4>3. grant[k].id = 0
        BY <3>1, <3>2, <4>1, <4>2 DEF Removable
      <4>4. grant[k].origin = "legacy"
        BY <2>4, <4>2, <4>3 DEF RowsAreNamed, LegacyOrNamed
      <4>5. share.role # RoleOf[k]
        BY <3>1, <3>2, <4>1, <4>3 DEF Removable
      <4> QED
        BY <4>4, <4>5 DEF Mistaken
    <3>4. CASE Tells(k) /\ Pending(k) /\ k \notin doubtful /\ ~Invited(k)
      <4>1. Mistaken(k)
        BY <3>3, <3>4
      <4>2. Tale(k)'
        BY <2>1, <2>3, <2>4, <2>5, <4>1, TaleStays
      <4> QED
        BY <2>1, <2>4, <4>2
    <3>5. CASE k \in doubtful \/ Invited(k)
      BY <2>1, <2>4, <2>5, <3>5 DEF Tale
    <3>6. CASE Mistaken(k) \/ ~Pending(k)
      <4>1. Tale(k)'
        BY <2>1, <2>3, <2>4, <2>5, <3>6, TaleStays
      <4> QED
        BY <2>1, <2>4, <4>1
    <3> QED
      BY <2>4, <3>4, <3>5, <3>6 DEF Tale
  <2> QED
    BY <1>9, <2>6, <2>7 DEF Removes
<1>10. ASSUME NEW r \in Removers, Applies(r)
       PROVE  Goal
  <2>1. /\ UNCHANGED <<assigned, active, share, sharer, ours, keeper>>
        /\ k \in Matters /\ Tale(k)
        /\ doubtful' = doubtful \cup {m \in Matters : /\ Entitled(m) /\ Pending(m)
                                                     /\ grant'[m].status = "revoked"}
        /\ Entitled(k) => Entitled(k)'
        /\ OnlyRun(r) /\ remover'[r] = NoRun
    BY <1>1, <1>10 DEF Applies, people, Entitled
  <2>2. Invited(k) => Invited(k)'
    BY <2>1 DEF Invited, Held
  <2>3. Undecided(k) => Undecided(k)'
    BY <2>1, NoRunFacts DEF OnlyRun, Undecided
  <2>4. CASE ~Pending(k) \/ remover[r].out[k] \in {"none", "failed"}
    <3>1. grant'[k] = grant[k]
      BY <1>10, <2>1, <2>4 DEF Applies
    <3>2. Tale(k)'
      BY <2>1, <2>2, <2>3, <3>1, TaleStays
    <3> QED
      BY <2>1, <3>2
  <2>5. CASE Pending(k) /\ remover[r].out[k] \notin {"none", "failed"}
    <3>1. /\ grant'[k].status = IF remover[r].out[k] = "restored" THEN "active" ELSE "revoked"
          /\ grant'[k].origin = grant[k].origin /\ grant'[k].id = grant[k].id
          /\ remover[r].out[k] # "todo" /\ grant[k] # NoGrant
      BY <1>10, <2>1, <2>5, Nothing DEF Applies, Pending
    <3>2. Mistaken(k) => Mistaken(k)'
      BY <2>1, <3>1 DEF Mistaken
    <3>3. CASE k \in doubtful \/ Mistaken(k) \/ Invited(k)
      BY <2>1, <2>2, <3>2, <3>3 DEF Tale
    <3>4. CASE Tells(k) /\ remover[r].out[k] = "restored"
      <4>1. Tells(k)' /\ ~Pending(k)'
        BY <2>1, <3>1, <3>4 DEF Tells, Pending
      <4> QED
        BY <2>1, <4>1 DEF Tale
    <3>5. CASE remover[r].out[k] # "restored" /\ Entitled(k)
      <4>1. keeper' \in doubtful'
        BY <2>1, <2>5, <3>1, <3>5
      <4> QED
        BY <2>1, <4>1 DEF Tale
    <3>6. Tells(k) /\ ~Entitled(k) => ~Undecided(k) \/ remover[r].out[k] = "restored"
      BY <2>5, <3>1 DEF Undecided
    <3> QED
      BY <2>1, <2>5, <3>3, <3>4, <3>5, <3>6 DEF Tale
  <2> QED
    BY <2>4, <2>5
<1> HIDE DEF Goal
<1>11. Goal
  BY <1>2, <1>3, <1>4, <1>5, <1>6, <1>7, <1>8, <1>9, <1>10, StepEffects
<1> QED
  BY <1>11 DEF Goal

(***************************************************************************)
(* The theorems.                                                           *)
(***************************************************************************)
LEMMA Start ==
    ASSUME Init
    PROVE  IInv
<1>1. /\ assigned = {} /\ active = TRUE /\ grant = [m \in Matters |-> NoGrant]
      /\ share \in {NoShare} \cup [id : {1}, role : Roles] /\ ids = share.id
      /\ sharer = [s \in Sharers |-> NoPass] /\ remover = [r \in Removers |-> NoRun]
      /\ queued = {} /\ requests = 0 /\ faults = 0
      /\ ours = {} /\ raced = {} /\ doubtful = {} /\ keeper = NoMatter
  BY DEF Init
<1>2. share \in ShareType /\ (share.id = 0 => share = NoShare) /\ share.id \in Ids
  BY <1>1, Nothing DEF ShareType, Ids
<1>3. TypeOK
  BY <1>1, <1>2, Nothing, NoPassFacts, NoRunFacts DEF TypeOK
<1>4. Placed
  BY <1>1, NoPassFacts, NoRunFacts DEF Placed, Held
<1>5. LeftBehind
  BY <1>1, Nothing, NoPassFacts, NoRunFacts DEF LeftBehind, Works, Held
<1>6. RowOnLeaving
  BY <1>1, Nothing, NoPassFacts, NoRunFacts DEF RowOnLeaving, Works, Held
<1>7. RowsAreNamed /\ SharesAreNamed
  BY <1>1, <1>2, NoPassFacts DEF RowsAreNamed, LegacyOrNamed, SharesAreNamed
<1>8. RunsKnowTheRow /\ KeeperTells /\ RemovalWasDue
  BY <1>1, NoRunFacts DEF RunsKnowTheRow, KeeperTells, RemovalWasDue
<1> QED
  BY <1>3, <1>4, <1>5, <1>6, <1>7, <1>8 DEF IInv

LEMMA Keeps ==
    ASSUME IInv, [Next]_vars
    PROVE  IInv'
<1>1. TypeOK' /\ Placed' /\ SharesAreNamed' /\ RowsAreNamed'
  BY Typed, PlacedStays, NamesStay DEF IInv
<1>2. LeftBehind' /\ RowOnLeaving' /\ RemovalWasDue'
  BY LeftBehindStays, RowOnLeavingStays, RemovalStaysDue DEF IInv
<1>3. RunsKnowTheRow' /\ KeeperTells'
  BY RunsStillKnow, KeeperStillTells DEF IInv
<1> QED
  BY <1>1, <1>2, <1>3 DEF IInv

\* The inductive invariant: what a person who left has left behind, what a run
\* knows of the rows it is about, and whose leaving takes the share back.
THEOREM Inductive == Spec => []IInv
<1>1. Init => IInv
  BY Start
<1>2. IInv /\ [Next]_vars => IInv'
  BY Keeps
<1> QED
  BY <1>1, <1>2, PTL DEF Spec

\* Rows, passes and runs are always in states the code knows.
THEOREM TypeCorrect == Spec => []TypeOK
<1>1. IInv => TypeOK
  BY DEF IInv
<1> QED
  BY <1>1, Inductive, PTL

\* process_pending_revocations sends a removal only for a person who, when it
\* asked _still_entitled and _shared_by_another_matter, was on no matter that
\* lists the folder.
THEOREM RemovalDue == Spec => []RemovalWasDue
<1>1. IInv => RemovalWasDue
  BY DEF IInv
<1> QED
  BY <1>1, Inductive, PTL

\* remove_assignment and deactivate_user mark the rows in their own transaction:
\* a row is active for a person who is not on the matter only when they left
\* while a pass or a run had it in hand.
THEOREM StrayRaced == Spec => []StrayGrantWasRaced
<1>1. IInv => StrayGrantWasRaced
  BY DEF IInv, LeftBehind, StrayGrantWasRaced
<1> QED
  BY <1>1, Inductive, PTL

\* When everything is at rest and nobody is on a matter, LawHand's share is
\* gone, unless the matter whose leaving had to take it back was left in a race,
\* its row came in doubt, or its row is about someone else's share.
THEOREM LastLeaver == Spec => []LastLeaverLosesAccess
<1>1. IInv => LastLeaverLosesAccess
  <2> SUFFICES ASSUME IInv, Quiet, \A m \in Matters : ~Entitled(m) /\ ~Pending(m),
                      share.id \in ours, keeper \notin raced, keeper \notin doubtful,
                      ~Mistaken(keeper)
               PROVE  FALSE
    BY DEF LastLeaverLosesAccess
  <2>1. keeper \in Matters /\ (Invited(keeper) \/ Tells(keeper))
    BY DEF IInv, KeeperTells
  <2>2. ~Invited(keeper)
    BY <2>1, NoPassFacts DEF Quiet, Invited, Held
  <2>3. grant[keeper] # NoGrant
    BY <2>1 DEF IInv, RowOnLeaving
  <2>4. grant[keeper].status # "active" /\ ~Pending(keeper)
    BY <2>1 DEF IInv, LeftBehind
  <2> QED
    BY <2>1, <2>2, <2>3, <2>4 DEF Tells, Pending
<1> QED
  BY <1>1, Inductive, PTL
==============================================================================
