---------------------------- MODULE MCTaskDelivery ----------------------------
(***************************************************************************)
(* Instances of TaskDelivery for TLC.                                      *)
(***************************************************************************)
EXTENDS TaskDelivery, TLC

CONSTANTS w1, w2, d1, d2

\* Workers, and the two texts of a draft, are interchangeable.
Symmetric == Permutations(Workers) \cup Permutations(Drafts)
==============================================================================
