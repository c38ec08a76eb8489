----------------------------- MODULE MCSmsDelivery -----------------------------
(***************************************************************************)
(* Instances of SmsDelivery for TLC.                                       *)
(***************************************************************************)
EXTENDS SmsDelivery

CONSTANTS s1, s2
==============================================================================
