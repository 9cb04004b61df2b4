------------------------------ MODULE LabProof -----------------------------
(***************************************************************************)
(* One-shot proofs in the lab: services/proof.py, services/lab.py and the   *)
(* framework adapter of services/framework.py, behind api/lab.py.           *)
(*                                                                         *)
(* The whole of execute is one database transaction.  Its gate decides on   *)
(* committed rows; the first append_status flushes the plan and the fixture, *)
(* and so locks both rows, before the framework is called; the commit comes  *)
(* after the call and after the restore.  What the framework does in between *)
(* is not undone when the transaction is.                                   *)
(*                                                                         *)
(* The lab controller is the fake one, the only one there is: every check,  *)
(* snapshot and restore succeeds.  What a session does once an attempt has   *)
(* one is LabSession's.  Bad... operators are seeded faults.                 *)
(***************************************************************************)
EXTENDS Naturals, FiniteSets

CONSTANTS
    Fixture,    \* lab fixtures, all in one lab environment
    Plan,       \* proof plans
    AttemptId,  \* identities of proof attempts
    FixtureOf,  \* the fixture of each plan
    Exploits,   \* plans whose module's operation is exploit, the others are checks
    Server,     \* API processes that execute and approve plans
    MaxRuns,    \* bound: calls of the framework for one plan
    NoTx, NoAttempt

ASSUME LabProofAssumption ==
    /\ IsFiniteSet(AttemptId) /\ IsFiniteSet(Server)
    /\ FixtureOf \in [Plan -> Fixture] /\ Exploits \subseteq Plan
    /\ MaxRuns \in Nat

VARIABLES
    isolated,   \* lab_environments.isolation_verified
    fixture,    \* lab_fixtures, as far as readiness tells them apart
    plan,       \* proof_plans
    attempt,    \* proof_attempts
    runs,       \* calls of the framework made for each plan
    tx          \* the transaction of each server

proofVars == <<isolated, fixture, plan, attempt, runs, tx>>

Outcome == {"DEMONSTRATED", "ATTEMPTED_NOT_DEMONSTRATED", "INCONCLUSIVE", "ERROR"}

PlanRow == [state : {"NONE", "AWAITING_APPROVAL", "APPROVED", "CONSUMED"}, elapsed : BOOLEAN]

AttemptRow == [plan : Plan, state : {"BLOCKED", "COMPLETED", "SESSION_ACTIVE"},
               outcome : Outcome \cup {"BLOCKED"}]

\* What a server has loaded and decided; outcome "NONE" until the framework has answered.
Tx == [op : {"approve", "execute"}, plan : Plan, attempt : AttemptId \cup {NoAttempt},
       outcome : Outcome \cup {"NONE"}]

ProofTypeOK ==
    /\ isolated \in BOOLEAN
    /\ fixture \in [Fixture -> {"NONE", "REGISTERED", "REHEARSED"}]
    /\ plan \in [Plan -> PlanRow]
    /\ attempt \in [AttemptId -> AttemptRow \cup {NoAttempt}]
    /\ runs \in [Plan -> 0..MaxRuns]
    /\ tx \in [Server -> Tx \cup {NoTx}]

ProofInit ==
    /\ isolated = FALSE
    /\ fixture = [f \in Fixture |-> "NONE"]
    /\ plan = [p \in Plan |-> [state |-> "NONE", elapsed |-> FALSE]]
    /\ attempt = [a \in AttemptId |-> NoAttempt]
    /\ runs = [p \in Plan |-> 0]
    /\ tx = [t \in Server |-> NoTx]

---------------------------------------------------------------------------
(* Environments and fixtures. *)

VerifyIsolation ==
    /\ ~isolated
    /\ isolated' = TRUE
    /\ UNCHANGED <<fixture, plan, attempt, runs, tx>>

\* A target has one fixture, so a plan finds the fixture of its target or none.
CreateFixture(f) ==
    /\ fixture[f] = "NONE"
    /\ fixture' = [fixture EXCEPT ![f] = "REGISTERED"]
    /\ UNCHANGED <<isolated, plan, attempt, runs, tx>>

\* The fixture's row is locked by a transaction that has flushed it.
RowLocked(f, t) ==
    \E u \in Server \ {t} : tx[u] # NoTx /\ tx[u].outcome # "NONE" /\ FixtureOf[tx[u].plan] = f

\* Snapshot, rehearsal and health are set together; locked_by is not looked at, the
\* write waits for the row.
RehearseRestore(f) ==
    /\ fixture[f] = "REGISTERED" /\ ~RowLocked(f, NoTx)
    /\ fixture' = [fixture EXCEPT ![f] = "REHEARSED"]
    /\ UNCHANGED <<isolated, plan, attempt, runs, tx>>

\* readiness; no committed row is ever locked, for execute clears locked_by again.
Ready(f) == isolated /\ fixture[f] = "REHEARSED"

---------------------------------------------------------------------------
(* Plans. *)

CreatePlan(p) ==
    /\ plan[p].state = "NONE" /\ fixture[FixtureOf[p]] # "NONE"
    /\ plan' = [plan EXCEPT ![p].state = "AWAITING_APPROVAL"]
    /\ UNCHANGED <<isolated, fixture, attempt, runs, tx>>

Open(t, r) ==
    /\ tx[t] = NoTx
    /\ tx' = [tx EXCEPT ![t] = r]

LoadApprove(t, p) ==
    /\ plan[p].state = "AWAITING_APPROVAL"
    /\ Open(t, [op |-> "approve", plan |-> p, attempt |-> NoAttempt, outcome |-> "NONE"])
    /\ UNCHANGED <<isolated, fixture, plan, attempt, runs>>

\* The window opens anew with the approval; the write waits for the plan's row.
CommitApprove(t) ==
    /\ tx[t] # NoTx /\ tx[t].op = "approve"
    /\ \A u \in Server : tx[u] # NoTx /\ tx[u].plan = tx[t].plan => tx[u].outcome = "NONE"
    /\ plan' = [plan EXCEPT ![tx[t].plan] = [state |-> "APPROVED", elapsed |-> FALSE]]
    /\ tx' = [tx EXCEPT ![t] = NoTx]
    /\ UNCHANGED <<isolated, fixture, attempt, runs>>

\* Two hours pass.
Elapse(p) ==
    /\ plan[p].state = "APPROVED" /\ ~plan[p].elapsed
    /\ plan' = [plan EXCEPT ![p].elapsed = TRUE]
    /\ UNCHANGED <<isolated, fixture, attempt, runs, tx>>

---------------------------------------------------------------------------
(* Execution. *)

ActiveStates == {"PREFLIGHT", "RUNNING", "STOPPING", "RECOVERING"}

BadGate(p) == plan[p].state # "AWAITING_APPROVAL" /\ ~plan[p].elapsed /\ Ready(FixtureOf[p])

\* _gate, which sees committed rows only.
Gate(p) ==
    /\ plan[p].state = "APPROVED" /\ ~plan[p].elapsed
    /\ Ready(FixtureOf[p])
    /\ \A a \in AttemptId : attempt[a] # NoAttempt => attempt[a].state \notin ActiveStates

Fresh(a) == attempt[a] = NoAttempt /\ \A t \in Server : tx[t] # NoTx => tx[t].attempt # a

Blocked(p, a) ==
    /\ plan[p].state # "NONE" /\ Fresh(a) /\ ~Gate(p)
    /\ attempt' = [attempt EXCEPT ![a] = [plan |-> p, state |-> "BLOCKED", outcome |-> "BLOCKED"]]
    /\ UNCHANGED <<isolated, fixture, plan, runs, tx>>

PassGate(t, p, a) ==
    /\ Fresh(a) /\ Gate(p)
    /\ Open(t, [op |-> "execute", plan |-> p, attempt |-> a, outcome |-> "NONE"])
    /\ UNCHANGED <<isolated, fixture, plan, attempt, runs>>

BadFlushed(t) == TRUE

\* The flush before the call, which waits for the rows of the plan and of the fixture.
Flushed(t) == ~RowLocked(FixtureOf[tx[t].plan], t)

\* interpret_native_result: the evidence class of a check's verdict.
Interpreted(code, telemetry) ==
    CASE code = "APPEARS"    -> "CANDIDATE"
      [] code = "DETECTED"   -> "PRODUCT_SERVICE"
      [] code = "VULNERABLE" -> "CONDITION"
      [] code = "SAFE"       -> IF telemetry THEN "CONDITION_NEGATIVE" ELSE "INCONCLUSIVE"
      [] OTHER               -> "INCONCLUSIVE"

BadCheckOutcome(code, telemetry, echoed, control) ==
    IF code = "VULNERABLE" /\ echoed /\ control THEN "DEMONSTRATED" ELSE Interpreted(code, telemetry)

\* _evaluate
CheckOutcome(code, telemetry, echoed, control) ==
    IF code = "VULNERABLE" /\ echoed /\ control THEN "DEMONSTRATED"
    ELSE IF Interpreted(code, telemetry) = "INCONCLUSIVE" THEN "INCONCLUSIVE"
    ELSE "ATTEMPTED_NOT_DEMONSTRATED"

\* _run_exploit
ExploitOutcome(opened, echoed) ==
    IF opened /\ echoed THEN "DEMONSTRATED" ELSE "ATTEMPTED_NOT_DEMONSTRATED"

\* What the framework may make of a plan; ERROR is an exception of the adapter, which a
\* check of an unknown module or of the real adapter always raises.
Answers(p) ==
    {"ERROR"} \cup
    (IF p \in Exploits THEN {ExploitOutcome(o, e) : o, e \in BOOLEAN}
     ELSE {CheckOutcome(c, t, e, n) : c \in {"APPEARS", "DETECTED", "VULNERABLE", "SAFE", "UNKNOWN"},
                                      t, e, n \in BOOLEAN})

\* The call itself: the fixture is touched here, before anything is committed.
Run(t) ==
    /\ tx[t] # NoTx /\ tx[t].op = "execute" /\ tx[t].outcome = "NONE"
    /\ Flushed(t) /\ runs[tx[t].plan] < MaxRuns
    /\ runs' = [runs EXCEPT ![tx[t].plan] = @ + 1]
    /\ \E o \in Answers(tx[t].plan) : tx' = [tx EXCEPT ![t].outcome = o]
    /\ UNCHANGED <<isolated, fixture, plan, attempt>>

\* Restore, release and commit.
Commit(t) ==
    /\ tx[t] # NoTx /\ tx[t].outcome # "NONE"
    /\ LET p == tx[t].plan
           a == tx[t].attempt
       IN  /\ plan' = [plan EXCEPT ![p].state = "CONSUMED"]
           /\ attempt' = [attempt EXCEPT ![a] =
                            [plan |-> p, state |-> "COMPLETED", outcome |-> tx[t].outcome]]
    /\ tx' = [tx EXCEPT ![t] = NoTx]
    /\ UNCHANGED <<isolated, fixture, runs>>

\* listener.establish has adopted a session of the attempt; the state is never left again.
Adopt(a) ==
    /\ attempt[a] # NoAttempt
    /\ attempt' = [attempt EXCEPT ![a].state = "SESSION_ACTIVE"]
    /\ UNCHANGED <<isolated, fixture, plan, runs, tx>>

\* The process dies or the database drops the connection: nothing was committed.
Crash(t) ==
    /\ tx[t] # NoTx
    /\ tx' = [tx EXCEPT ![t] = NoTx]
    /\ UNCHANGED <<isolated, fixture, plan, attempt, runs>>

ProofNext ==
    \/ VerifyIsolation
    \/ \E f \in Fixture : CreateFixture(f) \/ RehearseRestore(f)
    \/ \E p \in Plan : CreatePlan(p) \/ Elapse(p) \/ \E a \in AttemptId : Blocked(p, a)
    \/ \E t \in Server, p \in Plan : LoadApprove(t, p) \/ \E a \in AttemptId : PassGate(t, p, a)
    \/ \E t \in Server : CommitApprove(t) \/ Run(t) \/ Commit(t) \/ Crash(t)
    \/ \E a \in AttemptId : Adopt(a)

ProofSpec == ProofInit /\ [][ProofNext]_proofVars

---------------------------------------------------------------------------

\* execute (proof.py:242-250): the gate's "one active proof" is never true of committed
\* rows; that two calls never work on one fixture at a time rests on the rows the first
\* append_status locks.
OneRunPerFixture ==
    \A t, u \in Server :
        /\ t # u /\ tx[t] # NoTx /\ tx[u] # NoTx
        /\ tx[t].outcome # "NONE" /\ tx[u].outcome # "NONE"
        => FixtureOf[tx[t].plan] # FixtureOf[tx[u].plan]

\* A consumed plan nobody is working on.
Settled(p) ==
    /\ plan[p].state = "CONSUMED"
    /\ \A t \in Server : tx[t] # NoTx => tx[t].plan # p

\* One approval, one start (proof.py:131-137): once the transactions that overlapped the
\* first run are over, the plan is never approved, run or opened again.
OneShot == [][\A p \in Plan : Settled(p) => Settled(p)']_proofVars

===========================================================================
