----------------------------- MODULE MCAuditTrail -------------------------
(***************************************************************************)
(* Instances of AuditTrail for TLC.                                        *)
(***************************************************************************)
EXTENDS AuditTrail, TLC

CONSTANTS api, beat, work

Sessions == {api, beat, work}
===========================================================================
