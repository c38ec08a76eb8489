--------------------------- MODULE DeliveryContract ---------------------------
(***************************************************************************)
(* What the approvals of a drafted message promise whoever reads the board *)
(* and the history of the task: each approval gets one word on what became *)
(* of it and sends at most one letter; a word that says "sent" or "unsent" *)
(* is true and final; and nobody approves again over an unknown outcome    *)
(* without accepting the risk of a second letter.                          *)
(***************************************************************************)
EXTENDS Naturals

CONSTANT MaxApprovals

VARIABLES word,     \* [Approvals -> "none" or what the board says of it]
          letters,  \* [Approvals -> letters that left for the client]
          risk      \* approvals that accepted the risk of a second letter

Approvals == 1..MaxApprovals

Init == /\ word = [r \in Approvals |-> "none"]
        /\ letters = [r \in Approvals |-> 0]
        /\ risk = {}

\* Approvals come in order, each after a word that leaves something to send.
Approve(r) == /\ word[r] = "none"
              /\ \A q \in Approvals : q < r => word[q] \in {"unsent", "unknown"}
              /\ word' = [word EXCEPT ![r] = "open"]
              /\ risk' \in {risk, risk \cup {r}}
              /\ r > 1 /\ word[r - 1] = "unknown" => r \in risk'
              /\ UNCHANGED letters

\* A delivery given up as unknown may be under way all the same.
Undecided(r) == word[r] \in {"open", "unknown"}

Send(r) == /\ Undecided(r) /\ letters[r] = 0
           /\ letters' = [letters EXCEPT ![r] = 1]
           /\ UNCHANGED <<word, risk>>

Settle(r) == /\ Undecided(r)
             /\ word' = [word EXCEPT ![r] = IF letters[r] = 1 THEN "sent" ELSE "unsent"]
             /\ UNCHANGED <<letters, risk>>

LoseTrack(r) == /\ word[r] = "open"
                /\ word' = [word EXCEPT ![r] = "unknown"]
                /\ UNCHANGED <<letters, risk>>

Next == \E r \in Approvals : Approve(r) \/ Send(r) \/ Settle(r) \/ LoseTrack(r)

Spec == Init /\ [][Next]_<<word, letters, risk>>
================================================================================
