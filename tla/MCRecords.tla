----------------------------- MODULE MCRecords -----------------------------
(***************************************************************************)
(* Instances of Access and Issues for TLC.  The two share no variable and no *)
(* action reads the other's, so that each is explored with the other as it   *)
(* starts: the product of their states shows nothing more.                   *)
(***************************************************************************)
EXTENDS Access, Issues, TLC

CONSTANTS f1, httpx, nmap, tls

\* httpx reports the finding; nmap's stage has a coverage of its own.
TwoTools == f1 :> httpx

SharedRule == f1 :> tls

AccessSymmetry == Permutations(User) \cup Permutations(Sess) \cup Permutations(Client)

ApartInit == Init /\ IssuesInit

ApartNext ==
    \/ IssuesInit /\ Next /\ UNCHANGED issuesVars
    \/ Init /\ IssuesNext /\ UNCHANGED vars

ApartSpec == ApartInit /\ [][ApartNext]_<<vars, issuesVars>>
===========================================================================
