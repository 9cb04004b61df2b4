----------------------------- MODULE MCSchedule ----------------------------
(***************************************************************************)
(* Instances of Schedule for TLC.                                          *)
(***************************************************************************)
EXTENDS Schedule, TLC

CONSTANTS s1, s2

\* s1 runs every unit of time, s2 every third one.
UnevenSteps == s1 :> 1 @@ s2 :> 3

\* One schedule that is due at every unit of time.
EverySlot == s1 :> 1

===========================================================================
