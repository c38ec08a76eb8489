---------------------------- MODULE MCFolderShares ----------------------------
(***************************************************************************)
(* Instances of FolderShares for TLC.                                      *)
(***************************************************************************)
EXTENDS FolderShares, TLC

CONSTANTS m1, m2

\* The folder of m1 is a context folder of m2.
OwnAndContext == (m1 :> "write") @@ (m2 :> "read")
==============================================================================
