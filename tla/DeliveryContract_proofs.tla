------------------------ MODULE DeliveryContract_proofs ------------------------
(***************************************************************************)
(* What whoever relies on DeliveryContract may conclude from it, for any   *)
(* number of approvals.                                                    *)
(***************************************************************************)
EXTENDS DeliveryContract, TLAPS

Words == {"none", "open", "sent", "unsent", "unknown"}

\* A word is true of the letters of its approval.
TrueWord(r) == /\ letters[r] \in {0, 1}
               /\ word[r] = "none" => letters[r] = 0
               /\ word[r] = "sent" => letters[r] = 1
               /\ word[r] = "unsent" => letters[r] = 0

\* An approval has those before it behind it; the last of them sent nothing, or
\* the risk of a second letter was accepted.
Follows(r) == word[r] # "none" =>
    /\ \A q \in Approvals : q < r => word[q] # "none"
    /\ r > 1 => word[r - 1] = "unsent" \/ r \in risk

Inv == /\ word \in [Approvals -> Words] /\ letters \in [Approvals -> {0, 1}]
       /\ \A r \in Approvals : TrueWord(r) /\ Follows(r)

\* Between two letters to the client somebody accepted that it may come to that.
SecondLetterAccepted ==
    \A i, j \in Approvals : i < j /\ letters[i] = 1 /\ letters[j] = 1 =>
        \E k \in risk : i < k /\ k <= j

\* Giving an approval a word that is true, and "unsent" for good.
LEMMA WordGiven ==
    ASSUME MaxApprovals \in Nat, Inv, NEW r \in Approvals, NEW new \in Words \ {"none"},
           word' = [word EXCEPT ![r] = new], risk \subseteq risk', letters' = letters,
           word[r] # "unsent",
           new = "sent" => letters[r] = 1, new = "unsent" => letters[r] = 0,
           word[r] = "none" =>
              /\ \A q \in Approvals : q < r => word[q] # "none"
              /\ r > 1 => word[r - 1] = "unsent" \/ r \in risk'
    PROVE  Inv'
<1>1. /\ word' \in [Approvals -> Words] /\ word'[r] = new
      /\ \A q \in Approvals \ {r} : word'[q] = word[q]
  BY DEF Inv
<1>2. ASSUME NEW q \in Approvals PROVE TrueWord(q)'
  BY <1>1 DEF Inv, TrueWord
<1>3. ASSUME NEW q \in Approvals PROVE Follows(q)'
  <2>1. SUFFICES ASSUME word'[q] # "none"
                 PROVE  /\ \A p \in Approvals : p < q => word'[p] # "none"
                        /\ q > 1 => word'[q - 1] = "unsent" \/ q \in risk'
    BY DEF Follows
  <2>2. /\ \A p \in Approvals : p < q => word[p] # "none"
        /\ q > 1 => word[q - 1] = "unsent" \/ q \in risk'
    BY <1>1, <2>1 DEF Inv, Follows
  <2>3. word[q - 1] = "unsent" => word'[q - 1] = "unsent"
    BY DEF Inv
  <2> QED
    BY <1>1, <2>2, <2>3
<1> QED
  BY <1>1, <1>2, <1>3 DEF Inv

LEMMA Inductive ==
    ASSUME MaxApprovals \in Nat, Inv, [Next]_<<word, letters, risk>>
    PROVE  Inv'
<1>1. ASSUME NEW r \in Approvals, Approve(r) PROVE Inv'
  <2>1. \A q \in Approvals : q < r => word[q] # "none"
    BY <1>1 DEF Approve
  <2>2. r > 1 => word[r - 1] = "unsent" \/ r \in risk'
    <3>1. SUFFICES ASSUME r > 1 PROVE word[r - 1] = "unsent" \/ r \in risk'
      OBVIOUS
    <3>2. r - 1 \in Approvals /\ r - 1 < r
      BY <3>1 DEF Approvals
    <3> QED
      BY <1>1, <3>1, <3>2 DEF Approve
  <2> QED
    BY <1>1, <2>1, <2>2, WordGiven DEF Approve, Words
<1>2. ASSUME NEW r \in Approvals, Send(r) PROVE Inv'
  <2>1. /\ letters' \in [Approvals -> {0, 1}] /\ letters'[r] = 1
        /\ \A q \in Approvals \ {r} : letters'[q] = letters[q]
        /\ UNCHANGED <<word, risk>>
    BY <1>2 DEF Send, Inv
  <2>2. \A q \in Approvals : TrueWord(q)'
    BY <1>2, <2>1 DEF Send, Undecided, Inv, TrueWord
  <2>3. \A q \in Approvals : Follows(q)'
    BY <2>1 DEF Inv, Follows
  <2> QED
    BY <2>1, <2>2, <2>3 DEF Inv
<1>3. ASSUME NEW r \in Approvals, Settle(r) \/ LoseTrack(r) PROVE Inv'
  <2>1. letters[r] \in {0, 1}
    BY DEF Inv
  <2> QED
    BY <1>3, <2>1, WordGiven DEF Settle, LoseTrack, Undecided, Words
<1>4. CASE UNCHANGED <<word, letters, risk>>
  BY <1>4 DEF Inv, TrueWord, Follows
<1> QED
  BY <1>1, <1>2, <1>3, <1>4 DEF Next

\* What a task's history says of its deliveries is so: one letter at most per
\* approval, none where it says "unsent", and no second letter unasked.
THEOREM SecondLetterAsked ==
    ASSUME MaxApprovals \in Nat
    PROVE  Spec => [](Inv /\ SecondLetterAccepted)
<1>1. Init => Inv
  BY DEF Init, Inv, TrueWord, Follows, Words
<1>2. Inv /\ [Next]_<<word, letters, risk>> => Inv'
  BY Inductive
<1>3. Inv => SecondLetterAccepted
  <2> SUFFICES ASSUME Inv, NEW i \in Approvals, NEW j \in Approvals, i < j,
                      letters[i] = 1, letters[j] = 1
               PROVE  \E k \in risk : i < k /\ k <= j
    BY DEF SecondLetterAccepted
  <2>1. i + 1 \in Approvals /\ i < i + 1 /\ i + 1 <= j /\ i + 1 > 1
    BY DEF Approvals
  <2>2. word[j] # "none" /\ word[i] # "unsent"
    BY DEF Inv, TrueWord
  <2>3. word[i + 1] # "none"
    <3>1. CASE i + 1 = j
      BY <2>2, <3>1
    <3>2. CASE i + 1 < j
      BY <2>1, <2>2, <3>2 DEF Inv, Follows
    <3> QED
      BY <2>1, <3>1, <3>2 DEF Approvals
  <2>4. i + 1 \in risk
    <3>1. word[(i + 1) - 1] = "unsent" \/ i + 1 \in risk
      BY <2>1, <2>3 DEF Inv, Follows
    <3>2. (i + 1) - 1 = i
      BY DEF Approvals
    <3> QED
      BY <2>2, <3>1, <3>2
  <2> QED
    BY <2>1, <2>4
<1> QED
  BY <1>1, <1>2, <1>3, PTL DEF Spec
================================================================================
