-------------------------------- MODULE MCLab -------------------------------
(***************************************************************************)
(* Instances of LabProof, LabSession and Scope for TLC.  The transactions of  *)
(* the first two read and write no row of the other but the attempt's state,  *)
(* which Adopt sets at any time, and neither those of Scope, so that each is  *)
(* explored with the others as they start: the product of their states shows  *)
(* nothing more.                                                              *)
(***************************************************************************)
EXTENDS LabProof, LabSession, Scope, TLC

CONSTANTS p1, p2, f1

\* Two plans for one fixture.
OneFixture == p1 :> f1 @@ p2 :> f1

\* Every operator is an administrator here, so that each lease may be taken over, which
\* leaves out refusals only and makes the operators interchangeable too.
LabSymmetry ==
    Permutations(Client) \cup Permutations(Sess) \cup Permutations(Operator)

\* Bound: terminal grants at once.  They are looked at session by session.
OneGrant == Cardinality(terminal) <= 1

\* Two bits of address: the first one and the upper half are private, with a gap between.
PrivateSpace == {[net |-> 0, len |-> 2], [net |-> 2, len |-> 1]}

\* A sector, a name in it and a name below that one.
Names == {<<"gov">>, <<"city", "gov">>, <<"www", "city", "gov">>}

OneBuiltin == {[type |-> "DOMAIN_EXACT", net |-> NoNet, name |-> <<"city", "gov">>]}

ApartInit == ProofInit /\ Init /\ ScopeInit

ApartNext ==
    \/ Init /\ ScopeInit /\ ProofNext /\ UNCHANGED <<vars, scopeVars>>
    \/ ProofInit /\ ScopeInit /\ Next /\ UNCHANGED <<proofVars, scopeVars>>
    \/ ProofInit /\ Init /\ ScopeNext /\ UNCHANGED <<proofVars, vars>>

ApartSpec == ApartInit /\ [][ApartNext]_<<proofVars, vars, scopeVars>>
===========================================================================
