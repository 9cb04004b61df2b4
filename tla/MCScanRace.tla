----------------------------- MODULE MCScanRace ---------------------------
(***************************************************************************)
(* Instances of ScanRace for TLC.                                          *)
(***************************************************************************)
EXTENDS ScanRace, TLC

CONSTANTS a1, gA, t1

\* One active execution: every race of two requests, or of a request and a worker,
\* on the same row.
OneGroupOf  == a1 :> gA
OneTargetOf == a1 :> t1

\* The sessions are interchangeable.
SessionSymmetry == Permutations(Session)
===========================================================================
