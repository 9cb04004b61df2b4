----------------------------- MODULE MCScanCore ---------------------------
(***************************************************************************)
(* Instances of ScanCore for TLC.                                          *)
(***************************************************************************)
EXTENDS ScanCore, TLC

CONSTANTS a1, a2, p1, p2, gA, gP, gQ, t1, t2

\* One active scan of two targets.
PairExec     == {a1, a2}
PairGroupOf  == a1 :> gA @@ a2 :> gA
PairTargetOf == a1 :> t1 @@ a2 :> t2

\* A scheduled active scan and a passive one of the same target.
SoloExec     == {a1, p1}
SoloGroupOf  == a1 :> gA @@ p1 :> gP
SoloTargetOf == a1 :> t1 @@ p1 :> t1

\* Two passive scans, of two targets or of one.
IdleExec     == {p1, p2}
IdleGroupOf  == p1 :> gP @@ p2 :> gQ
IdleTargetOf == p1 :> t1 @@ p2 :> t2
SameTargetOf == p1 :> t1 @@ p2 :> t1
===========================================================================
