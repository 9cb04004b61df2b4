----------------------------- MODULE LabProofs -----------------------------
(***************************************************************************)
(* LabProof and LabSession proved for any number of plans, fixtures,         *)
(* servers, sessions and clients.  The two share no variable: each has an    *)
(* invariant of its own.                                                    *)
(***************************************************************************)
EXTENDS LabProof, LabSession, FiniteSetTheorems, SequenceTheorems, TLAPS

---------------------------------------------------------------------------
(* LabProof. *)

\* What the framework's answers come to.
LEMMA AnswersAreOutcomes ==
  ASSUME NEW p \in Plan
  PROVE  Answers(p) \subseteq Outcome
  <1>1. \A code, t, e, n : CheckOutcome(code, t, e, n) \in Outcome
    BY DEF CheckOutcome, Outcome
  <1>2. \A o, e : ExploitOutcome(o, e) \in Outcome
    BY DEF ExploitOutcome, Outcome
  <1> QED
    BY <1>1, <1>2 DEF Answers, Outcome

\* A transaction begins.
LEMMA OpenTyped ==
  ASSUME ProofTypeOK, NEW t \in Server, NEW p \in Plan, NEW a \in AttemptId \cup {NoAttempt},
         NEW op \in {"approve", "execute"},
         Open(t, [op |-> op, plan |-> p, attempt |-> a, outcome |-> "NONE"])
  PROVE  /\ tx' \in [Server -> Tx \cup {NoTx}]
         /\ tx'[t] = [op |-> op, plan |-> p, attempt |-> a, outcome |-> "NONE"]
         /\ \A u \in Server : u # t => tx'[u] = tx[u]
  <1>1. [op |-> op, plan |-> p, attempt |-> a, outcome |-> "NONE"] \in Tx
    BY DEF Tx
  <1> QED
    BY <1>1 DEF Open, ProofTypeOK

\* A call that has been made has its answer in the transaction, and no other transaction
\* has called for the same fixture: what execute's locks are to ensure.
LEMMA RunStep ==
  ASSUME ProofTypeOK, NEW t \in Server, Run(t)
  PROVE  /\ ProofTypeOK'
         /\ tx'[t] # NoTx => tx'[t].plan = tx[t].plan /\ tx'[t].op = tx[t].op
         /\ \A u \in Server : u # t => tx'[u] = tx[u]
  <1>1. PICK o \in Answers(tx[t].plan) : tx' = [tx EXCEPT ![t].outcome = o]
    BY DEF Run
  <1>2. tx[t] \in Tx
    BY DEF Run, ProofTypeOK
  <1>3. o \in Outcome
    BY <1>2, AnswersAreOutcomes DEF Tx
  <1>4. [tx[t] EXCEPT !.outcome = o] \in Tx
    BY <1>2, <1>3 DEF Tx
  <1>5. /\ tx' \in [Server -> Tx \cup {NoTx}] /\ tx'[t] = [tx[t] EXCEPT !.outcome = o]
        /\ \A u \in Server : u # t => tx'[u] = tx[u]
    BY <1>1, <1>4 DEF ProofTypeOK
  <1>6. runs' \in [Plan -> 0..MaxRuns]
    BY <1>2, LabProofAssumption DEF Run, ProofTypeOK, Tx
  <1> QED
    BY <1>2, <1>5, <1>6 DEF ProofTypeOK, Run, Tx

LEMMA CommitStep ==
  ASSUME ProofTypeOK, NEW t \in Server, Commit(t)
  PROVE  /\ ProofTypeOK'
         /\ tx'[t] = NoTx
         /\ \A u \in Server : u # t => tx'[u] = tx[u]
         /\ plan'[tx[t].plan].state = "CONSUMED" /\ tx[t].plan \in Plan
         /\ \A p \in Plan : p # tx[t].plan => plan'[p] = plan[p]
  <1> DEFINE p == tx[t].plan
             a == tx[t].attempt
             done == [plan |-> p, state |-> "COMPLETED", outcome |-> tx[t].outcome]
  <1>1. tx[t] \in Tx /\ tx[t].outcome # "NONE"
    BY DEF Commit, ProofTypeOK
  <1>2. p \in Plan /\ done \in AttemptRow
    BY <1>1 DEF Tx, AttemptRow
  <1>3. /\ plan' = [plan EXCEPT ![p].state = "CONSUMED"]
        /\ attempt' = [attempt EXCEPT ![a] = done]
        /\ tx' = [tx EXCEPT ![t] = NoTx] /\ UNCHANGED <<isolated, fixture, runs>>
    BY DEF Commit
  <1>4. [plan[p] EXCEPT !.state = "CONSUMED"] \in PlanRow
    BY <1>2 DEF ProofTypeOK, PlanRow
  <1>5. /\ plan' \in [Plan -> PlanRow] /\ plan'[p].state = "CONSUMED"
        /\ \A q \in Plan : q # p => plan'[q] = plan[q]
    BY <1>2, <1>3, <1>4 DEF ProofTypeOK, PlanRow
  <1>6. attempt' \in [AttemptId -> AttemptRow \cup {NoAttempt}]
    BY <1>2, <1>3 DEF ProofTypeOK
  <1>7. /\ tx' \in [Server -> Tx \cup {NoTx}] /\ tx'[t] = NoTx
        /\ \A u \in Server : u # t => tx'[u] = tx[u]
    BY <1>3 DEF ProofTypeOK
  <1> HIDE DEF done
  <1> QED
    BY <1>2, <1>3, <1>5, <1>6, <1>7 DEF ProofTypeOK

\* The types, under every step.
LEMMA ProofTypeStep ==
  ASSUME ProofTypeOK, [ProofNext]_proofVars
  PROVE  ProofTypeOK'
  <1>1. CASE VerifyIsolation
    BY <1>1 DEF VerifyIsolation, ProofTypeOK
  <1>2. ASSUME NEW f \in Fixture, CreateFixture(f) \/ RehearseRestore(f)
        PROVE  ProofTypeOK'
    BY <1>2 DEF CreateFixture, RehearseRestore, ProofTypeOK
  <1>3. ASSUME NEW p \in Plan, CreatePlan(p) \/ Elapse(p)
        PROVE  ProofTypeOK'
    <2>1. plan[p] \in PlanRow
      BY DEF ProofTypeOK
    <2>2. /\ [plan[p] EXCEPT !.state = "AWAITING_APPROVAL"] \in PlanRow
          /\ [plan[p] EXCEPT !.elapsed = TRUE] \in PlanRow
      BY <2>1 DEF PlanRow
    <2> QED
      BY <1>3, <2>2 DEF CreatePlan, Elapse, ProofTypeOK
  <1>4. ASSUME NEW p \in Plan, NEW a \in AttemptId, Blocked(p, a)
        PROVE  ProofTypeOK'
    <2>1. [plan |-> p, state |-> "BLOCKED", outcome |-> "BLOCKED"] \in AttemptRow
      BY DEF AttemptRow
    <2> QED
      BY <1>4, <2>1 DEF Blocked, ProofTypeOK
  <1>5. ASSUME NEW t \in Server, NEW p \in Plan, LoadApprove(t, p)
        PROVE  ProofTypeOK'
    BY <1>5, OpenTyped DEF LoadApprove, ProofTypeOK
  <1>6. ASSUME NEW t \in Server, NEW p \in Plan, NEW a \in AttemptId, PassGate(t, p, a)
        PROVE  ProofTypeOK'
    BY <1>6, OpenTyped DEF PassGate, ProofTypeOK
  <1>7. ASSUME NEW t \in Server, CommitApprove(t)
        PROVE  ProofTypeOK'
    <2>1. [state |-> "APPROVED", elapsed |-> FALSE] \in PlanRow
      BY DEF PlanRow
    <2> QED
      BY <1>7, <2>1 DEF CommitApprove, ProofTypeOK
  <1>8. ASSUME NEW t \in Server, Run(t) \/ Commit(t)
        PROVE  ProofTypeOK'
    BY <1>8, RunStep, CommitStep
  <1>9. ASSUME NEW t \in Server, Crash(t)
        PROVE  ProofTypeOK'
    BY <1>9 DEF Crash, ProofTypeOK
  <1>10. ASSUME NEW a \in AttemptId, Adopt(a)
         PROVE  ProofTypeOK'
    <2>1. [attempt[a] EXCEPT !.state = "SESSION_ACTIVE"] \in AttemptRow
      BY <1>10 DEF Adopt, ProofTypeOK, AttemptRow
    <2> QED
      BY <1>10, <2>1 DEF Adopt, ProofTypeOK
  <1>11. CASE UNCHANGED proofVars
    BY <1>11 DEF proofVars, ProofTypeOK
  <1> QED
    BY <1>1, <1>2, <1>3, <1>4, <1>5, <1>6, <1>7, <1>8, <1>9, <1>10, <1>11 DEF ProofNext

LEMMA ProofInitTyped == ProofInit => ProofTypeOK
  <1>1. [state |-> "NONE", elapsed |-> FALSE] \in PlanRow
    BY DEF PlanRow
  <1>2. 0 \in 0..MaxRuns
    BY LabProofAssumption
  <1> QED
    BY <1>1, <1>2 DEF ProofInit, ProofTypeOK

\* A call waits for the row of the fixture, so two are never at work on one.
LEMMA OneRunStep ==
  ASSUME ProofTypeOK, OneRunPerFixture, [ProofNext]_proofVars
  PROVE  OneRunPerFixture'
  <1> DEFINE calls(t) == tx[t] # NoTx /\ tx[t].outcome # "NONE"
  <1>1. ASSUME NEW t \in Server, Run(t)
        PROVE  OneRunPerFixture'
    <2>1. /\ tx[t] # NoTx
          /\ \A u \in Server \ {t} : calls(u) => FixtureOf[tx[u].plan] # FixtureOf[tx[t].plan]
      BY <1>1 DEF Run, Flushed, RowLocked
    <2>2. /\ tx'[t] # NoTx => tx'[t].plan = tx[t].plan
          /\ \A u \in Server : u # t => tx'[u] = tx[u]
      BY <1>1, RunStep
    <2> QED
      BY <2>1, <2>2 DEF OneRunPerFixture
  <1>2. ASSUME \A u \in Server : \/ tx'[u] = tx[u] \/ tx'[u] = NoTx
                                 \/ tx'[u].outcome = "NONE"
        PROVE  OneRunPerFixture'
    BY <1>2 DEF OneRunPerFixture
  <1>3. ASSUME NEW t \in Server, NEW p \in Plan,
               LoadApprove(t, p) \/ \E a \in AttemptId : PassGate(t, p, a)
        PROVE  OneRunPerFixture'
    <2>1. PICK op \in {"approve", "execute"}, a \in AttemptId \cup {NoAttempt} :
             Open(t, [op |-> op, plan |-> p, attempt |-> a, outcome |-> "NONE"])
      BY <1>3 DEF LoadApprove, PassGate
    <2>2. /\ tx'[t] = [op |-> op, plan |-> p, attempt |-> a, outcome |-> "NONE"]
          /\ \A u \in Server : u # t => tx'[u] = tx[u]
      BY <2>1, OpenTyped
    <2>3. tx'[t].outcome = "NONE"
      BY <2>2
    <2> QED
      BY <1>2, <2>2, <2>3
  <1>4. ASSUME NEW t \in Server, CommitApprove(t) \/ Commit(t) \/ Crash(t)
        PROVE  OneRunPerFixture'
    <2>1. tx' = [tx EXCEPT ![t] = NoTx]
      BY <1>4 DEF CommitApprove, Commit, Crash
    <2> QED
      BY <1>2, <2>1 DEF ProofTypeOK
  <1>5. CASE tx' = tx
    BY <1>2, <1>5
  <1> QED
    BY <1>1, <1>3, <1>4, <1>5 DEF ProofNext, proofVars, VerifyIsolation, CreateFixture,
       RehearseRestore, CreatePlan, Elapse, Blocked, Adopt

\* A consumed plan nobody works on: no gate passes it, and no approval is open.
LEMMA SettledStep ==
  ASSUME ProofTypeOK, [ProofNext]_proofVars, NEW p \in Plan, Settled(p)
  PROVE  Settled(p)'
  <1>1. /\ plan[p].state = "CONSUMED" /\ plan[p] \in PlanRow
        /\ \A t \in Server : tx[t] # NoTx => tx[t].plan # p
    BY DEF Settled, ProofTypeOK
  <1>2. ASSUME NEW t \in Server, Run(t)
        PROVE  Settled(p)'
    BY <1>1, <1>2, RunStep DEF Settled, Run
  <1>3. ASSUME NEW t \in Server, Commit(t)
        PROVE  Settled(p)'
    <2>1. p # tx[t].plan
      BY <1>1, <1>3 DEF Commit
    <2> QED
      BY <1>1, <1>3, <2>1, CommitStep DEF Settled
  <1>4. ASSUME NEW t \in Server, CommitApprove(t)
        PROVE  Settled(p)'
    <2>1. /\ p # tx[t].plan /\ plan' = [plan EXCEPT ![tx[t].plan] = [state |-> "APPROVED", elapsed |-> FALSE]]
          /\ tx' = [tx EXCEPT ![t] = NoTx]
      BY <1>1, <1>4 DEF CommitApprove
    <2> QED
      BY <1>1, <2>1 DEF Settled, ProofTypeOK
  <1>5. ASSUME NEW t \in Server, NEW q \in Plan,
               LoadApprove(t, q) \/ \E a \in AttemptId : PassGate(t, q, a)
        PROVE  Settled(p)'
    <2>1. p # q /\ plan' = plan
      BY <1>1, <1>5 DEF LoadApprove, PassGate, Gate
    <2>2. PICK op \in {"approve", "execute"}, a \in AttemptId \cup {NoAttempt} :
             Open(t, [op |-> op, plan |-> q, attempt |-> a, outcome |-> "NONE"])
      BY <1>5 DEF LoadApprove, PassGate
    <2>3. /\ tx'[t] = [op |-> op, plan |-> q, attempt |-> a, outcome |-> "NONE"]
          /\ \A u \in Server : u # t => tx'[u] = tx[u]
      BY <2>2, OpenTyped
    <2>4. tx'[t].plan = q
      BY <2>3
    <2> QED
      BY <1>1, <2>1, <2>3, <2>4 DEF Settled
  <1>6. ASSUME NEW q \in Plan, CreatePlan(q) \/ Elapse(q)
        PROVE  Settled(p)'
    <2>1. q # p
      BY <1>1, <1>6 DEF CreatePlan, Elapse
    <2> QED
      BY <1>1, <1>6, <2>1 DEF CreatePlan, Elapse, Settled, ProofTypeOK
  <1>7. ASSUME NEW t \in Server, Crash(t)
        PROVE  Settled(p)'
    BY <1>1, <1>7 DEF Crash, Settled, ProofTypeOK
  <1>8. CASE plan' = plan /\ tx' = tx
    BY <1>1, <1>8 DEF Settled
  <1> QED
    BY <1>2, <1>3, <1>4, <1>5, <1>6, <1>7, <1>8 DEF ProofNext, proofVars, VerifyIsolation,
       CreateFixture, RehearseRestore, Blocked, Adopt

\* proof.py execute: the types, and with them that what is stored as an outcome is one.
THEOREM ProofTypeCorrect == ProofSpec => []ProofTypeOK
  BY ProofInitTyped, ProofTypeStep, PTL DEF ProofSpec

\* proof.py execute: whatever calls and crashes overlap, one works on a fixture at a time.
THEOREM FixturesAreExclusive == ProofSpec => []OneRunPerFixture
  <1>1. ProofInit => OneRunPerFixture
    BY DEF ProofInit, OneRunPerFixture
  <1> QED
    BY <1>1, OneRunStep, ProofTypeCorrect, PTL DEF ProofSpec

\* proof.py approve, execute: a settled plan is never worked on again.
THEOREM ApprovalIsOneShot == ProofSpec => OneShot
  <1>1. ProofTypeOK /\ [ProofNext]_proofVars => [\A p \in Plan : Settled(p) => Settled(p)']_proofVars
    BY SettledStep
  <1> QED
    BY <1>1, ProofTypeCorrect, PTL DEF ProofSpec, OneShot

---------------------------------------------------------------------------
(* LabSession. *)

\* The session and the attempt a client's transaction is about.
Subject(r) == IF r.op = "lease" THEN r.s ELSE r.key[2]

\* What is asked of is there: no session's row is ever deleted.
SubjectsKnown == \A c \in Client : req[c] # NoReq => sess[Subject(req[c])] # NoSess

\* A transaction that has run is the only one of its key, and the key has no record.
RunsAlone ==
    /\ \A c \in Client : HasRun(c) => req[c].result = "DONE" /\ rec[req[c].key] = "NONE"
    /\ \A c, d \in Client : HasRun(c) /\ HasRun(d) /\ req[c].key = req[d].key => c = d

\* The stream of an attempt has no gap; one transaction at a time has the next number,
\* and who waits for a number has seen all those below it.
StreamOK ==
    /\ \A a \in Attempt : \E m \in Nat : events[a] = 1..m
    /\ \A a \in Attempt : \A c, d \in Numbered(a) : c = d
    /\ \A c \in Client : HasRun(c) =>
          /\ req[c].seq > 0 /\ 1..(req[c].seq - 1) \subseteq events[AttemptOf(c)]
          /\ req[c].stage = "flushed" => req[c].seq \notin events[AttemptOf(c)]

SessInv == TypeOK /\ SubjectsKnown /\ RunsAlone /\ StreamOK

LEMMA IntervalSize ==
  ASSUME NEW n \in Nat
  PROVE  IsFiniteSet(1..n) /\ Cardinality(1..n) = n
  <1>1. n \in Int /\ 1 \in Int
    OBVIOUS
  <1>2. IsFiniteSet(1..n) /\ Cardinality(1..n) = IF 1 > n THEN 0 ELSE n - 1 + 1
    BY <1>1, FS_Interval
  <1> QED
    BY <1>2

\* One lease of a list is changed, or none if it is not there.
LEMMA LeaseWrite ==
  ASSUME NEW ls \in Seq(Lease), NEW i \in Nat, NEW st \in {"inactive", "fresh", "elapsed"}
  PROVE  LET new == [ls EXCEPT ![i].state = st]
         IN  /\ new \in Seq(Lease) /\ Len(new) = Len(ls)
             /\ \A j \in 1..Len(ls) : new[j].state = IF j = i THEN st ELSE ls[j].state
  <1> DEFINE new == [ls EXCEPT ![i].state = st]
  <1>1. Len(ls) \in Nat /\ ls \in [1..Len(ls) -> Lease] /\ DOMAIN ls = 1..Len(ls)
    BY LenProperties
  <1>2. \A j \in 1..Len(ls) : [ls[j] EXCEPT !.state = st] \in Lease
    BY <1>1 DEF Lease
  <1>3. new \in [1..Len(ls) -> Lease]
    BY <1>1, <1>2
  <1>4. new \in Seq(Lease) /\ Len(new) = Len(ls)
    BY <1>1, <1>3
  <1>5. \A j \in 1..Len(ls) : new[j].state = IF j = i THEN st ELSE ls[j].state
    BY <1>1 DEF Lease
  <1> QED
    BY <1>4, <1>5

LEMMA DeactivateTyped ==
  ASSUME NEW ls \in Seq(Lease), NEW i \in Nat
  PROVE  /\ Deactivate(ls, i) \in Seq(Lease) /\ Len(Deactivate(ls, i)) = Len(ls)
         /\ \A j \in 1..Len(ls) : Deactivate(ls, i)[j].state \in {"inactive", ls[j].state}
  <1>1. CASE i = 0
    BY <1>1 DEF Deactivate
  <1>2. CASE i # 0
    <2> DEFINE new == [ls EXCEPT ![i].state = "inactive"]
    <2>1. /\ new \in Seq(Lease) /\ Len(new) = Len(ls)
          /\ \A j \in 1..Len(ls) : new[j].state = IF j = i THEN "inactive" ELSE ls[j].state
      BY LeaseWrite
    <2>2. Deactivate(ls, i) = new
      BY <1>2 DEF Deactivate
    <2> HIDE DEF new
    <2> QED
      BY <2>1, <2>2
  <1> QED
    BY <1>1, <1>2

LEMMA ExtendedTyped ==
  ASSUME NEW ls \in Seq(Lease), NEW i \in Nat
  PROVE  /\ Extended(ls, i) \in Seq(Lease) /\ Len(Extended(ls, i)) = Len(ls)
         /\ \A j \in 1..Len(ls) : ls[j].state = "inactive" => Extended(ls, i)[j].state = "inactive"
  <1> DEFINE new == [ls EXCEPT ![i].state = IF @ = "inactive" THEN @ ELSE "fresh"]
  <1>1. Len(ls) \in Nat /\ ls \in [1..Len(ls) -> Lease] /\ DOMAIN ls = 1..Len(ls)
    BY LenProperties
  <1>2. \A j \in 1..Len(ls) :
           [ls[j] EXCEPT !.state = IF @ = "inactive" THEN @ ELSE "fresh"] \in Lease
    BY <1>1 DEF Lease
  <1>3. new \in [1..Len(ls) -> Lease]
    BY <1>1, <1>2
  <1>4. new \in Seq(Lease) /\ Len(new) = Len(ls)
    BY <1>1, <1>3
  <1>5. \A j \in 1..Len(ls) : ls[j].state = "inactive" => new[j].state = "inactive"
    BY <1>1 DEF Lease
  <1> QED
    BY <1>4, <1>5 DEF Extended

\* What a step does to the leases of every session: none comes back.
LeasesKept ==
    /\ lease' \in [Sess -> Seq(Lease)]
    /\ \A s \in Sess :
          /\ Len(lease'[s]) <= MaxLeases /\ Len(lease[s]) <= Len(lease'[s])
          /\ \A i \in 1..Len(lease[s]) : lease[s][i].state = "inactive" => lease'[s][i].state = "inactive"

\* What a step does to the sessions: none disappears or changes its attempt.
SessKept ==
    /\ sess' \in [Sess -> Session \cup {NoSess}]
    /\ \A s \in Sess : sess[s] # NoSess => sess'[s] # NoSess /\ sess'[s].attempt = sess[s].attempt

LEMMA SameLeases ==
  ASSUME TypeOK, lease' = lease
  PROVE  LeasesKept
  BY DEF TypeOK, LeasesKept

LEMMA SameSessions ==
  ASSUME TypeOK, sess' = sess
  PROVE  SessKept
  BY DEF TypeOK, SessKept

\* One session's list of leases is replaced by one that keeps what is inactive.
LEMMA LeaseReplaced ==
  ASSUME TypeOK, NEW s \in Sess, NEW ls \in Seq(Lease), lease' = [lease EXCEPT ![s] = ls],
         Len(ls) <= MaxLeases, Len(lease[s]) <= Len(ls),
         \A i \in 1..Len(lease[s]) : lease[s][i].state = "inactive" => ls[i].state = "inactive"
  PROVE  LeasesKept
  BY DEF TypeOK, LeasesKept

\* One session that is there is given another state.
LEMMA SessionWritten ==
  ASSUME TypeOK, NEW s \in Sess, sess[s] # NoSess, NEW st \in InputOk \cup Ended,
         sess' = [sess EXCEPT ![s].state = st]
  PROVE  SessKept
  <1>1. sess[s] \in Session
    BY DEF TypeOK
  <1>2. /\ [sess[s] EXCEPT !.state = st] \in Session
        /\ [sess[s] EXCEPT !.state = st].attempt = sess[s].attempt
    BY <1>1 DEF Session
  <1>3. sess' = [sess EXCEPT ![s] = [sess[s] EXCEPT !.state = st]]
    OBVIOUS
  <1> QED
    BY <1>2, <1>3, NoneAssumption DEF TypeOK, SessKept

\* While LeaseFree holds, no session has all the leases there may be.
LEMMA RoomForLease ==
  ASSUME TypeOK, LeaseFree, NEW s \in Sess
  PROVE  Len(lease[s]) + 1 <= MaxLeases
  <1> DEFINE all == {p \in Sess \X (1..MaxLeases) : p[2] <= Len(lease[p[1]])}
             own == {s} \X (1..Len(lease[s]))
  <1>1. MaxLeases \in Nat /\ Len(lease[s]) \in Nat /\ Len(lease[s]) <= MaxLeases
    BY LabSessionAssumption, LenProperties DEF TypeOK
  <1>2. IsFiniteSet(all)
    <2>1. IsFiniteSet(Sess \X (1..MaxLeases))
      <3>1. IsFiniteSet(1..MaxLeases)
        BY <1>1, FS_Interval
      <3>2. IsFiniteSet(Sess)
        BY LabSessionAssumption
      <3> QED
        BY <3>1, <3>2, FS_Product
    <2> QED
      BY <2>1, FS_Subset
  <1>3. own \subseteq all
    BY <1>1
  <1>4. Cardinality(own) = Len(lease[s])
    <2>1. IsFiniteSet({s}) /\ Cardinality({s}) = 1
      BY FS_Singleton
    <2>2. IsFiniteSet(1..Len(lease[s])) /\ Cardinality(1..Len(lease[s])) = Len(lease[s])
      BY <1>1, IntervalSize
    <2>3. Cardinality(own) = 1 * Len(lease[s])
      <3> DEFINE n == 1..Len(lease[s])
      <3>1. IsFiniteSet({s}) /\ IsFiniteSet(n) /\ Cardinality(n) = Len(lease[s])
        BY <2>1, <2>2
      <3> HIDE DEF n
      <3>2. Cardinality({s} \X n) = Cardinality({s}) * Cardinality(n)
        BY <3>1, FS_Product
      <3> QED
        BY <2>1, <3>1, <3>2 DEF n
    <2> QED
      BY <1>1, <2>3
  <1>5. Cardinality(own) <= Cardinality(all) /\ Cardinality(all) \in Nat
    BY <1>2, <1>3, FS_Subset, FS_CardinalityType
  <1>6. Cardinality(all) < MaxLeases
    BY DEF LeaseFree
  <1> HIDE DEF all, own
  <1> QED
    BY <1>1, <1>4, <1>5, <1>6

\* The subject of a transaction is a session whose row is there.
LEMMA SubjectTyped ==
  ASSUME SessInv, NEW c \in Client, req[c] # NoReq
  PROVE  /\ Subject(req[c]) \in Sess /\ sess[Subject(req[c])] \in Session
         /\ req[c] \in Acquiring \cup Sending
  <1>1. req[c] \in Acquiring \cup Sending
    BY DEF SessInv, TypeOK
  <1>2. Subject(req[c]) \in Sess
    BY <1>1 DEF Subject, Acquiring, Sending, Key
  <1> QED
    BY <1>1, <1>2 DEF SessInv, SubjectsKnown, TypeOK

LEMMA SenderTyped ==
  ASSUME SessInv, NEW c \in Client, Sender(c)
  PROVE  /\ req[c] \in Sending /\ req[c] # NoReq /\ req[c].key \in Key /\ req[c].key[2] \in Sess
         /\ sess[req[c].key[2]] # NoSess /\ sess[req[c].key[2]] \in Session
         /\ AttemptOf(c) \in Attempt /\ Subject(req[c]) = req[c].key[2]
  <1>1. req[c] \in Sending /\ req[c] # NoReq
    BY DEF SessInv, TypeOK, Sender, Acquiring
  <1>2. req[c].key \in Key /\ req[c].key[2] \in Sess /\ Subject(req[c]) = req[c].key[2]
    BY <1>1 DEF Sending, Key, Subject
  <1>3. sess[req[c].key[2]] \in Session
    BY <1>1, <1>2, SubjectTyped
  <1> QED
    BY <1>1, <1>2, <1>3, NoneAssumption DEF AttemptOf, Session

\* A client that sends after a step as it did before it.
SameSend(c) ==
    /\ HasRun(c) /\ req'[c].key = req[c].key /\ req'[c].result = req[c].result
    /\ req'[c].seq = req[c].seq /\ req'[c].stage = req[c].stage

\* What a step does to transactions when none of them runs or records anything.
NoneRuns ==
    /\ req' \in [Client -> Acquiring \cup Sending \cup {NoReq}]
    /\ \A c \in Client : req'[c] # NoReq =>
          \/ req[c] # NoReq /\ Subject(req'[c]) = Subject(req[c])
          \/ Subject(req'[c]) \in Sess /\ sess[Subject(req'[c])] # NoSess
    /\ \A c \in Client : HasRun(c)' => SameSend(c)

LEMMA SubjectsStay ==
  ASSUME SessInv, SessKept, NEW c \in Client, req'[c] # NoReq,
         \/ req[c] # NoReq /\ Subject(req'[c]) = Subject(req[c])
         \/ Subject(req'[c]) \in Sess /\ sess[Subject(req'[c])] # NoSess
  PROVE  sess'[Subject(req'[c])] # NoSess
  <1>1. Subject(req'[c]) \in Sess /\ sess[Subject(req'[c])] # NoSess
    BY SubjectTyped, NoneAssumption
  <1> QED
    BY <1>1 DEF SessKept

LEMMA AttemptStays ==
  ASSUME SessInv, SessKept, NEW c \in Client, SameSend(c)
  PROVE  AttemptOf(c)' = AttemptOf(c) /\ AttemptOf(c) \in Attempt
  <1>1. Sender(c)
    BY DEF SameSend, HasRun
  <1>2. req[c].key[2] \in Sess /\ sess[req[c].key[2]] # NoSess /\ AttemptOf(c) \in Attempt
    BY <1>1, SenderTyped
  <1>3. sess'[req[c].key[2]].attempt = sess[req[c].key[2]].attempt
    BY <1>2 DEF SessKept
  <1> QED
    BY <1>2, <1>3 DEF SameSend, AttemptOf

LEMMA NoneRunsKeeps ==
  ASSUME SessInv, SessKept, LeasesKept, NoneRuns, terminal' \subseteq Sess,
         rec' = rec, events' = events
  PROVE  SessInv'
  <1>1. TypeOK'
    <2>1. sess' \in [Sess -> Session \cup {NoSess}]
      BY DEF SessKept
    <2>2. lease' \in [Sess -> Seq(Lease)] /\ \A s \in Sess : Len(lease'[s]) <= MaxLeases
      BY DEF LeasesKept
    <2> QED
      BY <2>1, <2>2 DEF SessInv, TypeOK, NoneRuns
  <1>2. SubjectsKnown'
    BY SubjectsStay DEF SubjectsKnown, NoneRuns, Subject
  <1>3. RunsAlone'
    BY DEF SessInv, RunsAlone, NoneRuns, SameSend
  <1>4. StreamOK'
    <2>1. \A a \in Attempt : \A c \in Numbered(a)' : c \in Numbered(a)
      <3> SUFFICES ASSUME NEW a \in Attempt, NEW c \in Client, c \in Numbered(a)'
                   PROVE  c \in Numbered(a)
        BY DEF Numbered
      <3>1. Sender(c)' /\ req'[c].stage = "flushed" /\ AttemptOf(c)' = a
        BY DEF Numbered
      <3>2. HasRun(c)'
        BY <3>1 DEF HasRun
      <3>3. SameSend(c)
        BY <3>2 DEF NoneRuns
      <3> QED
        BY <3>1, <3>3, AttemptStays DEF Numbered, SameSend, HasRun
    <2>2. \A a \in Attempt : \A c, d \in Numbered(a)' : c = d
      BY <2>1 DEF SessInv, StreamOK
    <2>3. ASSUME NEW c \in Client, HasRun(c)'
          PROVE  /\ req'[c].seq > 0 /\ 1..(req'[c].seq - 1) \subseteq events'[AttemptOf(c)']
                 /\ req'[c].stage = "flushed" => req'[c].seq \notin events'[AttemptOf(c)']
      <3>1. SameSend(c)
        BY <2>3 DEF NoneRuns
      <3>2. HasRun(c)
        BY <3>1 DEF SameSend
      <3>3. /\ req[c].seq > 0 /\ 1..(req[c].seq - 1) \subseteq events[AttemptOf(c)]
            /\ req[c].stage = "flushed" => req[c].seq \notin events[AttemptOf(c)]
        BY <3>2 DEF SessInv, StreamOK
      <3>4. AttemptOf(c)' = AttemptOf(c)
        BY <3>1, AttemptStays
      <3> QED
        BY <3>1, <3>3, <3>4 DEF SameSend
    <2>4. \A a \in Attempt : \E m \in Nat : events'[a] = 1..m
      BY DEF SessInv, StreamOK
    <2> QED
      BY <2>2, <2>3, <2>4 DEF StreamOK
  <1> QED
    BY <1>1, <1>2, <1>3, <1>4 DEF SessInv

\* Transactions are left alone, one of them begins, or one of them ends.
LEMMA NoRequest ==
  ASSUME SessInv, req' = req
  PROVE  NoneRuns
  BY DEF SessInv, TypeOK, NoneRuns, SameSend, HasRun, Sender

LEMMA RequestBegins ==
  ASSUME SessInv, NEW c \in Client, NEW r \in Acquiring \cup Sending, req[c] = NoReq,
         req' = [req EXCEPT ![c] = r], r.op = "input" => r.stage = "checked",
         sess[Subject(r)] # NoSess
  PROVE  NoneRuns
  <1>1. req \in [Client -> Acquiring \cup Sending \cup {NoReq}]
    BY DEF SessInv, TypeOK
  <1>2. req' \in [Client -> Acquiring \cup Sending \cup {NoReq}]
    BY <1>1
  <1>3. req'[c] = r /\ \A d \in Client : d # c => req'[d] = req[d]
    BY <1>1
  <1>4. Subject(r) \in Sess
    BY DEF Subject, Acquiring, Sending, Key
  <1>5. ASSUME NEW d \in Client, HasRun(d)'
        PROVE  SameSend(d)
    <2>1. d # c
      BY <1>3, <1>5 DEF HasRun, Sender
    <2> QED
      BY <1>3, <1>5, <2>1 DEF SameSend, HasRun, Sender
  <1> QED
    BY <1>2, <1>3, <1>4, <1>5 DEF NoneRuns

LEMMA RequestEnds ==
  ASSUME SessInv, NEW c \in Client, req' = [req EXCEPT ![c] = NoReq]
  PROVE  NoneRuns
  <1>1. req \in [Client -> Acquiring \cup Sending \cup {NoReq}]
    BY DEF SessInv, TypeOK
  <1>2. req' \in [Client -> Acquiring \cup Sending \cup {NoReq}]
    BY <1>1
  <1>3. req'[c] = NoReq /\ \A d \in Client : d # c => req'[d] = req[d]
    BY <1>1
  <1>4. ASSUME NEW d \in Client, HasRun(d)'
        PROVE  SameSend(d)
    <2>1. d # c
      BY <1>3, <1>4 DEF HasRun, Sender
    <2> QED
      BY <1>3, <1>4, <2>1 DEF SameSend, HasRun, Sender
  <1> QED
    BY <1>2, <1>3, <1>4 DEF NoneRuns

LEMMA AcquireStep ==
  ASSUME SessInv, NEW c \in Client, NEW s \in Sess, NEW who \in Operator, NEW cur \in 0..MaxLeases,
         Acquire(c, s, who, cur)
  PROVE  SessInv' /\ SessKept /\ LeasesKept
  <1> DEFINE extend == (cur # 0 /\ lease[s][cur].state = "fresh") /\ lease[s][cur].holder = who
             r == [op |-> "lease", s |-> s, holder |-> who, cur |-> cur, extend |-> extend,
                   seen |-> sess[s].state]
  <1>1. req[c] = NoReq /\ sess[s] # NoSess /\ req' = [req EXCEPT ![c] = r]
    BY DEF Acquire, Known
  <1>2. sess[s] \in Session
    BY <1>1 DEF SessInv, TypeOK
  <1>3. sess[s].state \in InputOk \cup Ended
    BY <1>2 DEF Session
  <1>4. extend \in BOOLEAN
    OBVIOUS
  <1> HIDE DEF extend
  <1>5. r \in Acquiring /\ r.op = "lease" /\ Subject(r) = s
    BY <1>3, <1>4 DEF Acquiring, Subject
  <1> HIDE DEF r
  <1>6. NoneRuns
    BY <1>1, <1>5, RequestBegins
  <1>7. SessKept /\ LeasesKept
    BY SameSessions, SameLeases DEF Acquire, SessInv
  <1>8. rec' = rec /\ events' = events /\ terminal' \subseteq Sess
    BY DEF Acquire, SessInv, TypeOK
  <1> QED
    BY <1>6, <1>7, <1>8, NoneRunsKeeps

LEMMA CheckStep ==
  ASSUME SessInv, NEW c \in Client, NEW k \in Key, NEW result \in Record, NEW ends \in BOOLEAN,
         Known(k[2]), Check(c, k, result, ends)
  PROVE  SessInv' /\ SessKept /\ LeasesKept
  <1> DEFINE r == [op |-> "input", key |-> k, result |-> result, seq |-> 0,
                   stage |-> "checked", ends |-> ends, release |-> 0]
  <1>1. req[c] = NoReq /\ req' = [req EXCEPT ![c] = r]
    BY DEF Check
  <1>2. 0 \in 0..MaxEvents /\ 0 \in 0..MaxLeases
    BY LabSessionAssumption
  <1>3. r \in Sending /\ Subject(r) = k[2] /\ r.stage = "checked"
    BY <1>2 DEF Sending, Subject
  <1> HIDE DEF r
  <1>4. NoneRuns
    BY <1>1, <1>3, RequestBegins DEF Known
  <1>5. SessKept /\ LeasesKept
    BY SameSessions, SameLeases DEF Check, SessInv
  <1>6. rec' = rec /\ events' = events /\ terminal' \subseteq Sess
    BY DEF Check, SessInv, TypeOK
  <1> QED
    BY <1>4, <1>5, <1>6, NoneRunsKeeps

LEMMA DispatchStep ==
  ASSUME SessInv, NEW c \in Client, NEW s \in Sess, NEW r \in Request,
         NEW a \in {"whoami", "terminate"}, NEW token \in Nat, NEW cur \in 0..MaxLeases,
         Dispatch(c, s, r, a, token, cur)
  PROVE  SessInv' /\ SessKept /\ LeasesKept
  <1> DEFINE k == <<"action", s, r>>
  <1>1. k \in Key /\ k[2] = s
    BY DEF Key
  <1>2. PICK result \in {"DONE", "REFUSED"}, ends \in BOOLEAN : Check(c, k, result, ends)
    BY DEF Dispatch
  <1>3. Known(k[2])
    BY <1>1 DEF Dispatch
  <1> HIDE DEF k
  <1> QED
    BY <1>1, <1>2, <1>3, CheckStep DEF Record

LEMMA SubmitFrameStep ==
  ASSUME SessInv, NEW c \in Client, NEW s \in Sess, NEW r \in Request, NEW token \in Nat,
         NEW cur \in 0..MaxLeases, NEW fits \in BOOLEAN, SubmitFrame(c, s, r, token, cur, fits)
  PROVE  SessInv' /\ SessKept /\ LeasesKept
  <1> DEFINE k == <<"frame", s, r>>
  <1>1. k \in Key /\ k[2] = s
    BY DEF Key
  <1>2. PICK result \in {"DONE", "REFUSED"} : Check(c, k, result, FALSE)
    BY DEF SubmitFrame
  <1>3. Known(k[2])
    BY <1>1 DEF SubmitFrame
  <1> HIDE DEF k
  <1> QED
    BY <1>1, <1>2, <1>3, CheckStep DEF Record

LEMMA AcquiredStep ==
  ASSUME SessInv, NEW c \in Client, Acquired(c)
  PROVE  SessInv' /\ SessKept /\ LeasesKept
  <1> DEFINE r == req[c]
             ls == lease[r.s]
             old == Deactivate(ls, r.cur)
             new == [holder |-> r.holder, state |-> "fresh"]
  <1>1. r # NoReq /\ r \in Acquiring
    BY DEF Acquired, SessInv, TypeOK, Sending
  <1>2. /\ r.s \in Sess /\ r.cur \in Nat /\ r.holder \in Operator /\ r.seen \in InputOk \cup Ended
        /\ sess[r.s] \in Session
    <2>1. /\ r.s \in Sess /\ r.cur \in 0..MaxLeases /\ r.holder \in Operator
          /\ r.seen \in InputOk \cup Ended /\ r.op = "lease"
      BY <1>1 DEF Acquiring
    <2>2. sess[Subject(r)] \in Session
      BY <1>1, SubjectTyped
    <2> QED
      BY <2>1, <2>2, LabSessionAssumption DEF Subject
  <1>3. ls \in Seq(Lease) /\ Len(ls) <= MaxLeases
    BY <1>2 DEF SessInv, TypeOK
  <1>4. LeasesKept /\ SessKept
    <2>1. CASE r.extend
      <3> DEFINE ext == Extended(ls, r.cur)
      <3>1. /\ ext \in Seq(Lease) /\ Len(ext) = Len(ls)
            /\ \A j \in 1..Len(ls) : ls[j].state = "inactive" => ext[j].state = "inactive"
        BY <1>2, <1>3, ExtendedTyped
      <3>2. lease' = [lease EXCEPT ![r.s] = ext] /\ sess' = sess
        BY <2>1 DEF Acquired
      <3> HIDE DEF ext
      <3>3. Len(ext) <= MaxLeases /\ Len(ls) <= Len(ext)
        BY <1>3, <3>1, LabSessionAssumption, LenProperties
      <3>4. LeasesKept
        BY <1>2, <3>1, <3>2, <3>3, LeaseReplaced DEF SessInv
      <3> QED
        BY <3>2, <3>4, SameSessions DEF SessInv
    <2>2. CASE ~r.extend
      <3> DEFINE long == Append(old, new)
      <3>1. /\ old \in Seq(Lease) /\ Len(old) = Len(ls)
            /\ \A j \in 1..Len(ls) : old[j].state \in {"inactive", ls[j].state}
        BY <1>2, <1>3, DeactivateTyped
      <3>2. new \in Lease
        BY <1>2 DEF Lease
      <3>3. LeaseFree /\ lease' = [lease EXCEPT ![r.s] = long]
        BY <2>2 DEF Acquired
      <3> HIDE DEF old, new
      <3>4. /\ long \in Seq(Lease) /\ Len(long) = Len(ls) + 1
            /\ \A j \in 1..Len(ls) : long[j] = old[j]
        BY <3>1, <3>2, AppendProperties
      <3>5. Len(ls) + 1 <= MaxLeases
        BY <1>2, <3>3, RoomForLease DEF SessInv
      <3> HIDE DEF long
      <3>6. Len(long) <= MaxLeases /\ Len(ls) <= Len(long) /\ Len(ls) \in Nat
        BY <1>3, <3>4, <3>5, LenProperties, LabSessionAssumption
      <3>7. \A j \in 1..Len(ls) : ls[j].state = "inactive" => long[j].state = "inactive"
        BY <3>1, <3>4
      <3>8. LeasesKept
        BY <1>2, <3>3, <3>4, <3>6, <3>7, LeaseReplaced DEF SessInv
      <3>9. SessKept
        <4> DEFINE st == Controlled(sess[r.s].state, r.seen)
        <4>1. st \in InputOk \cup Ended
          BY <1>2 DEF Controlled, Session, InputOk
        <4>2. sess' = [sess EXCEPT ![r.s].state = st]
          BY <2>2 DEF Acquired
        <4> HIDE DEF st
        <4> QED
          BY <1>2, <4>1, <4>2, SessionWritten, NoneAssumption DEF SessInv
      <3> QED
        BY <3>8, <3>9
    <2> QED
      BY <2>1, <2>2
  <1>5. NoneRuns
    BY RequestEnds DEF Acquired
  <1>6. rec' = rec /\ events' = events /\ terminal' \subseteq Sess
    BY DEF Acquired, SessInv, TypeOK
  <1> QED
    BY <1>4, <1>5, <1>6, NoneRunsKeeps

LEMMA HeartbeatStep ==
  ASSUME SessInv, NEW s \in Sess, NEW i \in 1..MaxLeases, Heartbeat(s, i)
  PROVE  SessInv' /\ SessKept /\ LeasesKept
  <1> DEFINE ls == lease[s]
             ext == Extended(ls, i)
  <1>1. ls \in Seq(Lease) /\ Len(ls) <= MaxLeases /\ i \in Nat
    BY DEF SessInv, TypeOK
  <1>2. /\ ext \in Seq(Lease) /\ Len(ext) = Len(ls)
        /\ \A j \in 1..Len(ls) : ls[j].state = "inactive" => ext[j].state = "inactive"
    BY <1>1, ExtendedTyped
  <1>3. lease' = [lease EXCEPT ![s] = ext] /\ sess' = sess /\ req' = req
    BY DEF Heartbeat
  <1> HIDE DEF ext
  <1>4. Len(ext) <= MaxLeases /\ Len(ls) <= Len(ext)
    BY <1>1, <1>2, LabSessionAssumption, LenProperties
  <1>5. LeasesKept
    BY <1>2, <1>3, <1>4, LeaseReplaced DEF SessInv
  <1>6. rec' = rec /\ events' = events /\ terminal' \subseteq Sess
    BY DEF Heartbeat, SessInv, TypeOK
  <1> QED
    BY <1>3, <1>5, <1>6, NoneRunsKeeps, NoRequest, SameSessions DEF SessInv

LEMMA LeaseElapsesStep ==
  ASSUME SessInv, NEW s \in Sess, NEW i \in 1..MaxLeases, LeaseElapses(s, i)
  PROVE  SessInv' /\ SessKept /\ LeasesKept
  <1> DEFINE ls == lease[s]
             new == [ls EXCEPT ![i].state = "elapsed"]
  <1>1. ls \in Seq(Lease) /\ Len(ls) <= MaxLeases /\ i \in Nat
    BY DEF SessInv, TypeOK
  <1>2. /\ new \in Seq(Lease) /\ Len(new) = Len(ls)
        /\ \A j \in 1..Len(ls) : new[j].state = IF j = i THEN "elapsed" ELSE ls[j].state
    BY <1>1, LeaseWrite
  <1>3. lease' = [lease EXCEPT ![s] = new] /\ sess' = sess /\ req' = req /\ ls[i].state = "fresh"
    BY DEF LeaseElapses
  <1> HIDE DEF new
  <1>4. Len(new) <= MaxLeases /\ Len(ls) <= Len(new)
    BY <1>1, <1>2, LabSessionAssumption, LenProperties
  <1>5. LeasesKept
    BY <1>2, <1>3, <1>4, LeaseReplaced DEF SessInv
  <1>6. rec' = rec /\ events' = events /\ terminal' \subseteq Sess
    BY DEF LeaseElapses, SessInv, TypeOK
  <1> QED
    BY <1>3, <1>5, <1>6, NoneRunsKeeps, NoRequest, SameSessions DEF SessInv

LEMMA DeactivateKeeps ==
  ASSUME SessInv, NEW s \in Sess, NEW i \in 0..MaxLeases,
         lease' = [lease EXCEPT ![s] = Deactivate(@, i)]
  PROVE  LeasesKept
  <1> DEFINE ls == lease[s]
             new == Deactivate(ls, i)
  <1>1. ls \in Seq(Lease) /\ Len(ls) <= MaxLeases /\ i \in Nat
    BY DEF SessInv, TypeOK
  <1>2. /\ new \in Seq(Lease) /\ Len(new) = Len(ls)
        /\ \A j \in 1..Len(ls) : new[j].state \in {"inactive", ls[j].state}
    BY <1>1, DeactivateTyped
  <1>3. lease' = [lease EXCEPT ![s] = new]
    OBVIOUS
  <1> HIDE DEF new
  <1>4. Len(new) <= MaxLeases /\ Len(ls) <= Len(new)
    BY <1>1, <1>2, LabSessionAssumption, LenProperties
  <1>5. \A j \in 1..Len(ls) : ls[j].state = "inactive" => new[j].state = "inactive"
    BY <1>2
  <1> QED
    BY <1>2, <1>3, <1>4, <1>5, LeaseReplaced DEF SessInv

LEMMA EndStep ==
  ASSUME SessInv, NEW s \in Sess, NEW state \in InputOk \cup Ended, End(s, state)
  PROVE  SessInv' /\ SessKept /\ LeasesKept
  <1> DEFINE st == IF state = "CONTROLLED" THEN "READY" ELSE state
  <1>1. PICK i \in 0..MaxLeases : Released(s, state, i)
    BY DEF End
  <1>2. LeasesKept
    BY <1>1, DeactivateKeeps DEF Released
  <1>3. sess[s] # NoSess /\ sess' = [sess EXCEPT ![s].state = st]
    BY <1>1 DEF End, Known, Released
  <1>4. st \in InputOk \cup Ended
    BY DEF InputOk
  <1> HIDE DEF st
  <1>5. SessKept
    BY <1>3, <1>4, SessionWritten DEF SessInv
  <1>6. rec' = rec /\ events' = events /\ terminal' \subseteq Sess /\ req' = req
    BY DEF End, SessInv, TypeOK
  <1> QED
    BY <1>2, <1>5, <1>6, NoneRunsKeeps, NoRequest

LEMMA EstablishStep ==
  ASSUME SessInv, NEW s \in Sess, NEW a \in Attempt, NEW ok \in BOOLEAN, Establish(s, a, ok)
  PROVE  SessInv' /\ SessKept /\ LeasesKept
  <1> DEFINE new == [attempt |-> a, state |-> Adopted(a, ok)]
  <1>1. new \in Session
    BY DEF Session, Adopted, InputOk, Ended
  <1>2. sess[s] = NoSess /\ sess' = [sess EXCEPT ![s] = new]
    BY DEF Establish
  <1> HIDE DEF new
  <1>3. SessKept
    BY <1>1, <1>2, NoneAssumption DEF SessInv, TypeOK, SessKept
  <1>4. rec' = rec /\ events' = events /\ terminal' \subseteq Sess /\ req' = req /\ lease' = lease
    BY DEF Establish, SessInv, TypeOK
  <1> QED
    BY <1>3, <1>4, NoneRunsKeeps, NoRequest, SameLeases DEF SessInv

LEMMA TerminalStep ==
  ASSUME SessInv, NEW s \in Sess, GrantTerminal(s) \/ GrantElapses(s)
  PROVE  SessInv' /\ SessKept /\ LeasesKept
  <1>1. /\ rec' = rec /\ events' = events /\ terminal' \subseteq Sess /\ req' = req
        /\ lease' = lease /\ sess' = sess
    BY DEF GrantTerminal, GrantElapses, SessInv, TypeOK
  <1> QED
    BY <1>1, NoneRunsKeeps, NoRequest, SameLeases, SameSessions DEF SessInv

LEMMA RollbackStep ==
  ASSUME SessInv, NEW c \in Client, Rollback(c)
  PROVE  SessInv' /\ SessKept /\ LeasesKept
  <1>1. NoneRuns
    BY RequestEnds DEF Rollback
  <1>2. /\ rec' = rec /\ events' = events /\ terminal' \subseteq Sess
        /\ lease' = lease /\ sess' = sess
    BY DEF Rollback, SessInv, TypeOK
  <1> QED
    BY <1>1, <1>2, NoneRunsKeeps, SameLeases, SameSessions DEF SessInv

\* Who waits for a number that has not been committed has the next one.
LEMMA NextNumber ==
  ASSUME SessInv, NEW c \in Client, HasRun(c), req[c].seq \notin events[AttemptOf(c)]
  PROVE  \E m \in Nat : events[AttemptOf(c)] = 1..m /\ req[c].seq = m + 1
  <1>1. AttemptOf(c) \in Attempt /\ req[c] \in Sending
    BY SenderTyped DEF HasRun
  <1>2. PICK m \in Nat : events[AttemptOf(c)] = 1..m
    BY <1>1 DEF SessInv, StreamOK
  <1>3. req[c].seq \in Nat /\ req[c].seq > 0 /\ 1..(req[c].seq - 1) \subseteq 1..m
    BY <1>1, <1>2, LabSessionAssumption DEF SessInv, StreamOK, Sending
  <1> DEFINE n == req[c].seq
  <1>4. n \in Nat /\ n > 0 /\ 1..(n - 1) \subseteq 1..m /\ ~(n \in 1..m)
    BY <1>2, <1>3
  <1> HIDE DEF n
  <1>5. n > m
    BY <1>4
  <1>6. n - 1 <= m
    <2>1. CASE n = 1
      BY <2>1
    <2>2. CASE n # 1
      <3>1. n - 1 \in 1..(n - 1)
        BY <1>4, <2>2
      <3> QED
        BY <1>4, <3>1
    <2> QED
      BY <2>1, <2>2
  <1>7. n = m + 1
    BY <1>4, <1>5, <1>6
  <1> QED
    BY <1>2, <1>7 DEF n

LEMMA NextSeqIs ==
  ASSUME SessInv, NEW a \in Attempt, NEW m \in Nat, events[a] = 1..m
  PROVE  NextSeq(a) = m + 1
  <1>1. Cardinality(1..m) = m
    BY IntervalSize
  <1> QED
    BY <1>1 DEF NextSeq

LEMMA FlushStep ==
  ASSUME SessInv, NEW c \in Client, Flush(c)
  PROVE  SessInv' /\ SessKept /\ LeasesKept
  <1> DEFINE a == AttemptOf(c)
             k == req[c].key
  <1>1. /\ Sender(c) /\ req[c] \in Sending /\ k \in Key /\ k[2] \in Sess /\ sess[k[2]] # NoSess
        /\ a \in Attempt /\ req[c].stage = "checked" /\ req[c].result = "DONE" /\ ~KeyTaken(c, k)
        /\ req[c] # NoReq
    BY SenderTyped DEF Flush
  <1>2. PICK m \in Nat : events[a] = 1..m
    BY <1>1 DEF SessInv, StreamOK
  <1>3. PICK i \in 0..MaxLeases :
           req' = [req EXCEPT ![c] = [@ EXCEPT !.release = i, !.seq = NextSeq(a),
                     !.stage = IF Numbered(a) = {} THEN "flushed" ELSE "waits"]]
    BY DEF Flush
  <1> DEFINE st == IF Numbered(a) = {} THEN "flushed" ELSE "waits"
             new == [req[c] EXCEPT !.release = i, !.seq = m + 1, !.stage = st]
  <1>4. req' = [req EXCEPT ![c] = new]
    BY <1>1, <1>2, <1>3, NextSeqIs
  <1>5. req \in [Client -> Acquiring \cup Sending \cup {NoReq}]
    BY DEF SessInv, TypeOK
  <1>6. req'[c] = new /\ \A d \in Client : d # c => req'[d] = req[d]
    BY <1>4, <1>5
  <1>7. st \in {"flushed", "waits"} /\ (st = "flushed" => Numbered(a) = {})
    OBVIOUS
  <1> HIDE DEF st
  <1>8. /\ new.op = "input" /\ new.key = k /\ new.result = "DONE" /\ new.seq = m + 1
        /\ new.stage = st /\ Subject(new) = k[2]
    BY <1>1 DEF Sending, Subject, Sender
  <1>9. m + 1 \in 0..MaxEvents
    <2>1. req'[c].seq <= MaxEvents
      BY DEF Flush
    <2>2. m + 1 <= MaxEvents
      BY <1>6, <1>8, <2>1
    <2> QED
      BY <2>2, LabSessionAssumption
  <1>10. new \in Sending /\ new # NoReq
    <2>1. new \in Sending
      BY <1>1, <1>7, <1>9 DEF Sending
    <2> QED
      BY <2>1, NoneAssumption
  <1> HIDE DEF new
  <1>11. sess' = sess /\ lease' = lease /\ rec' = rec /\ events' = events /\ terminal' = terminal
    BY DEF Flush
  <1>12. SessKept /\ LeasesKept
    BY <1>11, SameSessions, SameLeases DEF SessInv
  <1>13. TypeOK'
    BY <1>4, <1>5, <1>10, <1>11 DEF SessInv, TypeOK
  <1>14. SubjectsKnown'
    <2> SUFFICES ASSUME NEW d \in Client, req'[d] # NoReq
                 PROVE  sess'[Subject(req'[d])] # NoSess
      BY DEF SubjectsKnown, Subject
    <2>1. CASE d = c
      BY <1>1, <1>6, <1>8, <1>11, <2>1
    <2>2. CASE d # c
      BY <1>6, <1>11, <2>2 DEF SessInv, SubjectsKnown
    <2> QED
      BY <2>1, <2>2
  <1>15. ASSUME NEW d \in Client, d # c
         PROVE  /\ HasRun(d)' <=> HasRun(d)
                /\ AttemptOf(d)' = AttemptOf(d) /\ req'[d] = req[d]
                /\ \A b \in Attempt : d \in Numbered(b)' <=> d \in Numbered(b)
    BY <1>6, <1>11, <1>15 DEF HasRun, Sender, AttemptOf, Numbered
  <1>16. HasRun(c)' /\ AttemptOf(c)' = a /\ ~HasRun(c)
    BY <1>1, <1>6, <1>7, <1>8, <1>10, <1>11 DEF HasRun, Sender, AttemptOf
  <1>17. rec[k] = "NONE" /\ \A d \in Client : HasRun(d) => req[d].key # k
    BY <1>1, <1>16 DEF KeyTaken, HasRun
  <1>18. RunsAlone'
    <2>1. ASSUME NEW d \in Client, HasRun(d)'
          PROVE  req'[d].result = "DONE" /\ rec'[req'[d].key] = "NONE"
      <3>1. CASE d = c
        BY <1>6, <1>8, <1>11, <1>17, <3>1
      <3>2. CASE d # c
        BY <1>11, <1>15, <2>1, <3>2 DEF SessInv, RunsAlone
      <3> QED
        BY <3>1, <3>2
    <2>2. ASSUME NEW d \in Client, NEW e \in Client, HasRun(d)', HasRun(e)', req'[d].key = req'[e].key
          PROVE  d = e
      <3>1. CASE d # c /\ e # c
        BY <1>15, <2>2, <3>1 DEF SessInv, RunsAlone
      <3>2. CASE d = c /\ e # c
        BY <1>6, <1>8, <1>15, <1>17, <2>2, <3>2
      <3>3. CASE d # c /\ e = c
        BY <1>6, <1>8, <1>15, <1>17, <2>2, <3>3
      <3> QED
        BY <3>1, <3>2, <3>3
    <2> QED
      BY <2>1, <2>2 DEF RunsAlone
  <1>19. StreamOK'
    <2>1. \A b \in Attempt : \E n \in Nat : events'[b] = 1..n
      BY <1>11 DEF SessInv, StreamOK
    <2>2. ASSUME NEW b \in Attempt, NEW d \in Numbered(b)', NEW e \in Numbered(b)'
          PROVE  d = e
      <3>1. d \in Client /\ e \in Client
        BY DEF Numbered
      <3>2. CASE d # c /\ e # c
        BY <1>15, <3>1, <3>2 DEF SessInv, StreamOK
      <3>3. CASE d = c \/ e = c
        <4>1. c \in Numbered(b)'
          BY <3>3
        <4>2. b = a /\ st = "flushed"
          BY <1>6, <1>8, <1>16, <4>1 DEF Numbered
        <4>3. Numbered(b) = {}
          BY <1>7, <4>2
        <4> QED
          BY <1>15, <3>1, <4>3
      <3> QED
        BY <3>2, <3>3
    <2>3. ASSUME NEW d \in Client, HasRun(d)'
          PROVE  /\ req'[d].seq > 0 /\ 1..(req'[d].seq - 1) \subseteq events'[AttemptOf(d)']
                 /\ req'[d].stage = "flushed" => req'[d].seq \notin events'[AttemptOf(d)']
      <3>1. CASE d # c
        BY <1>11, <1>15, <2>3, <3>1 DEF SessInv, StreamOK
      <3>2. CASE d = c
        <4>1. req'[d].seq = m + 1 /\ events'[AttemptOf(d)'] = 1..m
          BY <1>2, <1>6, <1>8, <1>11, <1>16, <3>2
        <4>2. m + 1 > 0 /\ 1..(m + 1 - 1) \subseteq 1..m /\ m + 1 \notin 1..m
          OBVIOUS
        <4> QED
          BY <4>1, <4>2
      <3> QED
        BY <3>1, <3>2
    <2> QED
      BY <2>1, <2>2, <2>3 DEF StreamOK
  <1> QED
    BY <1>12, <1>13, <1>14, <1>18, <1>19 DEF SessInv

LEMMA WakeStep ==
  ASSUME SessInv, NEW c \in Client, Wake(c)
  PROVE  SessInv' /\ SessKept /\ LeasesKept
  <1> DEFINE a == AttemptOf(c)
             new == [req[c] EXCEPT !.stage = "flushed"]
  <1>1. /\ Sender(c) /\ HasRun(c) /\ req[c] \in Sending /\ req[c] # NoReq /\ a \in Attempt
        /\ req[c].stage = "waits" /\ req[c].seq \notin events[a]
        /\ \A d \in Numbered(a) : req[d].seq # req[c].seq
    BY SenderTyped DEF Wake, HasRun
  <1>2. req' = [req EXCEPT ![c] = new]
    BY DEF Wake
  <1>3. req \in [Client -> Acquiring \cup Sending \cup {NoReq}]
    BY DEF SessInv, TypeOK
  <1>4. req'[c] = new /\ \A d \in Client : d # c => req'[d] = req[d]
    BY <1>2, <1>3
  <1>5. /\ new \in Sending /\ new # NoReq /\ new.op = "input" /\ new.key = req[c].key
        /\ new.result = req[c].result /\ new.seq = req[c].seq /\ new.stage = "flushed"
        /\ Subject(new) = Subject(req[c])
    <2>1. new \in Sending /\ new.op = "input"
      BY <1>1 DEF Sending
    <2>2. /\ new.key = req[c].key /\ new.result = req[c].result /\ new.seq = req[c].seq
          /\ new.stage = "flushed" /\ req[c].op = "input"
      BY <1>1 DEF Sending
    <2> QED
      BY <2>1, <2>2, NoneAssumption DEF Subject
  <1> HIDE DEF new
  <1>6. sess' = sess /\ lease' = lease /\ rec' = rec /\ events' = events /\ terminal' = terminal
    BY DEF Wake
  <1>7. SessKept /\ LeasesKept
    BY <1>6, SameSessions, SameLeases DEF SessInv
  <1>8. TypeOK'
    BY <1>2, <1>3, <1>5, <1>6 DEF SessInv, TypeOK
  <1>9. SubjectsKnown'
    <2> SUFFICES ASSUME NEW d \in Client, req'[d] # NoReq
                 PROVE  sess'[Subject(req'[d])] # NoSess
      BY DEF SubjectsKnown, Subject
    <2> QED
      BY <1>1, <1>4, <1>5, <1>6 DEF SessInv, SubjectsKnown
  <1>10. \A d \in Client : /\ HasRun(d)' <=> HasRun(d)
                           /\ AttemptOf(d)' = AttemptOf(d)
    BY <1>1, <1>4, <1>5, <1>6 DEF HasRun, Sender, AttemptOf
  <1>11. \A d \in Client : HasRun(d)' => /\ req'[d].key = req[d].key /\ req'[d].seq = req[d].seq
                                         /\ req'[d].result = req[d].result
    BY <1>4, <1>5
  <1>12. RunsAlone'
    BY <1>6, <1>10, <1>11 DEF SessInv, RunsAlone
  <1>13. PICK m \in Nat : events[a] = 1..m /\ req[c].seq = m + 1
    BY <1>1, NextNumber
  <1>14. Numbered(a) = {}
    <2> SUFFICES ASSUME NEW d \in Numbered(a)
                 PROVE  FALSE
      OBVIOUS
    <2>1. d \in Client /\ HasRun(d) /\ AttemptOf(d) = a /\ req[d].stage = "flushed"
      BY DEF Numbered, HasRun
    <2>2. req[d].seq \notin events[a]
      BY <2>1 DEF SessInv, StreamOK
    <2>3. PICK n \in Nat : events[a] = 1..n /\ req[d].seq = n + 1
      BY <2>1, <2>2, NextNumber
    <2>4. n = m
      <3>1. 1..n = 1..m
        BY <1>13, <2>3
      <3>2. Cardinality(1..n) = n /\ Cardinality(1..m) = m
        BY IntervalSize
      <3> QED
        BY <3>1, <3>2
    <2> QED
      BY <1>1, <1>13, <2>3, <2>4
  <1>15. StreamOK'
    <2>1. \A b \in Attempt : \E n \in Nat : events'[b] = 1..n
      BY <1>6 DEF SessInv, StreamOK
    <2>2. ASSUME NEW b \in Attempt, NEW d \in Numbered(b)', NEW e \in Numbered(b)'
          PROVE  d = e
      <3>1. \A g \in Numbered(b)' : g # c => g \in Numbered(b)
        BY <1>4, <1>10 DEF Numbered, Sender
      <3>2. c \in Numbered(b)' => b = a
        BY <1>10 DEF Numbered
      <3>3. CASE b = a
        BY <1>14, <3>1, <3>3
      <3>4. CASE b # a
        BY <3>1, <3>2, <3>4 DEF SessInv, StreamOK
      <3> QED
        BY <3>3, <3>4
    <2>3. ASSUME NEW d \in Client, HasRun(d)'
          PROVE  /\ req'[d].seq > 0 /\ 1..(req'[d].seq - 1) \subseteq events'[AttemptOf(d)']
                 /\ req'[d].stage = "flushed" => req'[d].seq \notin events'[AttemptOf(d)']
      <3>1. HasRun(d) /\ AttemptOf(d)' = AttemptOf(d) /\ req'[d].seq = req[d].seq
        BY <1>10, <1>11, <2>3
      <3>2. req'[d].seq > 0 /\ 1..(req'[d].seq - 1) \subseteq events'[AttemptOf(d)']
        BY <1>6, <3>1 DEF SessInv, StreamOK
      <3>3. req'[d].stage = "flushed" => req'[d].seq \notin events'[AttemptOf(d)']
        <4>1. CASE d = c
          BY <1>1, <1>6, <3>1, <4>1
        <4>2. CASE d # c
          BY <1>4, <1>6, <3>1, <4>2 DEF SessInv, StreamOK
        <4> QED
          BY <4>1, <4>2
      <3> QED
        BY <3>2, <3>3
    <2> QED
      BY <2>1, <2>2, <2>3 DEF StreamOK
  <1> QED
    BY <1>7, <1>8, <1>9, <1>12, <1>15 DEF SessInv

LEMMA RefusedStep ==
  ASSUME SessInv, NEW c \in Client, Refused(c)
  PROVE  SessInv' /\ SessKept /\ LeasesKept
  <1> DEFINE k == req[c].key
             mid == [rec EXCEPT ![k] = "REFUSED"]
  <1>1. Sender(c) /\ k \in Key /\ req[c].result = "REFUSED" /\ ~KeyTaken(c, k)
    BY SenderTyped DEF Refused
  <1>2. NoneRuns
    BY RequestEnds DEF Refused
  <1>3. /\ rec' = mid /\ events' = events /\ terminal' = terminal /\ sess' = sess /\ lease' = lease
        /\ req' = [req EXCEPT ![c] = NoReq]
    BY DEF Refused
  <1>4. SessKept /\ LeasesKept
    BY <1>3, SameSessions, SameLeases DEF SessInv
  <1>5. TypeOK'
    <2>1. mid \in [Key -> Record]
      BY DEF SessInv, TypeOK, Record
    <2> QED
      BY <1>2, <1>3, <2>1 DEF SessInv, TypeOK, NoneRuns
  <1>6. SubjectsKnown'
    BY <1>2, <1>4, SubjectsStay DEF SubjectsKnown, NoneRuns, Subject
  <1>7. ASSUME NEW d \in Client, HasRun(d)'
        PROVE  SameSend(d) /\ req[d].key # k /\ req[d].key \in Key
    <2>1. SameSend(d) /\ HasRun(d)
      BY <1>2, <1>7 DEF NoneRuns, SameSend
    <2>2. d # c
      BY <1>1, <2>1 DEF SessInv, RunsAlone
    <2>3. req[d].key \in Key
      BY <2>1, SenderTyped DEF HasRun
    <2> QED
      BY <1>1, <2>1, <2>2, <2>3 DEF KeyTaken, HasRun
  <1>8. \A j \in Key : j # k => mid[j] = rec[j]
    BY DEF SessInv, TypeOK
  <1> HIDE DEF mid
  <1>9. RunsAlone'
    BY <1>3, <1>7, <1>8 DEF SessInv, RunsAlone, SameSend
  <1>10. StreamOK'
    <2>1. \A a \in Attempt : \A d \in Numbered(a)' : d \in Numbered(a)
      <3> SUFFICES ASSUME NEW a \in Attempt, NEW d \in Client, d \in Numbered(a)'
                   PROVE  d \in Numbered(a)
        BY DEF Numbered
      <3>1. HasRun(d)' /\ req'[d].stage = "flushed" /\ AttemptOf(d)' = a
        BY DEF Numbered, HasRun
      <3>2. SameSend(d)
        BY <1>7, <3>1
      <3> QED
        BY <1>4, <3>1, <3>2, AttemptStays DEF Numbered, SameSend, HasRun
    <2>2. ASSUME NEW d \in Client, HasRun(d)'
          PROVE  SameSend(d) /\ AttemptOf(d)' = AttemptOf(d)
      BY <1>4, <1>7, <2>2, AttemptStays
    <2> QED
      BY <1>3, <2>1, <2>2 DEF SessInv, StreamOK, SameSend
  <1> QED
    BY <1>4, <1>5, <1>6, <1>9, <1>10 DEF SessInv

LEMMA RecordedStep ==
  ASSUME SessInv, NEW c \in Client, Recorded(c)
  PROVE  SessInv' /\ SessKept /\ LeasesKept
  <1> DEFINE k == req[c].key
             a == AttemptOf(c)
             mid == [rec EXCEPT ![k] = "DONE"]
             evs == [events EXCEPT ![a] = @ \cup {req[c].seq}]
  <1>1. /\ Sender(c) /\ HasRun(c) /\ req[c] \in Sending /\ k \in Key /\ k[2] \in Sess
        /\ sess[k[2]] # NoSess /\ a \in Attempt /\ req[c].stage = "flushed"
        /\ req[c].release \in 0..MaxLeases
    BY SenderTyped DEF Recorded, HasRun, Sending
  <1>2. NoneRuns
    BY RequestEnds DEF Recorded
  <1>3. /\ rec' = mid /\ events' = evs /\ terminal' = terminal
        /\ req' = [req EXCEPT ![c] = NoReq]
        /\ lease' = [lease EXCEPT ![k[2]] = Deactivate(@, req[c].release)]
        /\ sess' = IF req[c].ends THEN [sess EXCEPT ![k[2]].state = "ENDED"] ELSE sess
    BY DEF Recorded
  <1>4. LeasesKept
    BY <1>1, <1>3, DeactivateKeeps
  <1>5. SessKept
    <2>1. CASE req[c].ends
      BY <1>1, <1>3, <2>1, SessionWritten DEF SessInv, Ended
    <2>2. CASE ~req[c].ends
      BY <1>3, <2>2, SameSessions DEF SessInv
    <2> QED
      BY <2>1, <2>2
  <1>6. PICK m \in Nat : events[a] = 1..m /\ req[c].seq = m + 1
    <2>1. req[c].seq \notin events[a]
      BY <1>1 DEF SessInv, StreamOK
    <2> QED
      BY <1>1, <2>1, NextNumber
  <1>7. evs[a] = 1..(m + 1) /\ \A b \in Attempt : b # a => evs[b] = events[b]
    <2>1. evs[a] = (1..m) \cup {m + 1}
      BY <1>1, <1>6 DEF SessInv, TypeOK
    <2>2. (1..m) \cup {m + 1} = 1..(m + 1)
      OBVIOUS
    <2> QED
      BY <2>1, <2>2 DEF SessInv, TypeOK
  <1>8. evs \in [Attempt -> SUBSET (1..MaxEvents)]
    <2>1. req[c].seq \in 1..MaxEvents
      BY <1>1, <1>6, LabSessionAssumption DEF Sending
    <2>2. events \in [Attempt -> SUBSET (1..MaxEvents)]
      BY DEF SessInv, TypeOK
    <2> QED
      BY <1>1, <2>1, <2>2
  <1> HIDE DEF evs
  <1>9. mid \in [Key -> Record] /\ \A j \in Key : j # k => mid[j] = rec[j]
    BY DEF SessInv, TypeOK, Record
  <1> HIDE DEF mid
  <1>10. TypeOK'
    <2>1. sess' \in [Sess -> Session \cup {NoSess}] /\ lease' \in [Sess -> Seq(Lease)]
      BY <1>4, <1>5 DEF LeasesKept, SessKept
    <2>2. \A s \in Sess : Len(lease'[s]) <= MaxLeases
      BY <1>4 DEF LeasesKept
    <2> QED
      BY <1>2, <1>3, <1>8, <1>9, <2>1, <2>2 DEF SessInv, TypeOK, NoneRuns
  <1>11. SubjectsKnown'
    BY <1>2, <1>5, SubjectsStay DEF SubjectsKnown, NoneRuns, Subject
  <1>12. ASSUME NEW d \in Client, HasRun(d)'
         PROVE  /\ SameSend(d) /\ HasRun(d) /\ d # c /\ req[d].key # k /\ req[d].key \in Key
                /\ AttemptOf(d)' = AttemptOf(d) /\ AttemptOf(d) \in Attempt
    <2>1. SameSend(d) /\ HasRun(d)
      BY <1>2, <1>12 DEF NoneRuns, SameSend
    <2>2. d # c
      BY <1>3, <1>12 DEF HasRun, Sender, SessInv, TypeOK
    <2>3. req[d].key # k
      BY <1>1, <2>1, <2>2 DEF SessInv, RunsAlone
    <2>4. req[d].key \in Key
      BY <2>1, SenderTyped DEF HasRun
    <2> QED
      BY <1>5, <2>1, <2>2, <2>3, <2>4, AttemptStays
  <1>13. RunsAlone'
    BY <1>3, <1>9, <1>12 DEF SessInv, RunsAlone, SameSend
  <1>14. \A b \in Attempt : \A d \in Numbered(b)' : d \in Numbered(b) /\ d # c
    <2> SUFFICES ASSUME NEW b \in Attempt, NEW d \in Client, d \in Numbered(b)'
                 PROVE  d \in Numbered(b) /\ d # c
      BY DEF Numbered
    <2>1. HasRun(d)' /\ req'[d].stage = "flushed" /\ AttemptOf(d)' = b
      BY DEF Numbered, HasRun
    <2> QED
      BY <1>12, <2>1 DEF Numbered, SameSend, HasRun
  <1>15. c \in Numbered(a)
    BY <1>1 DEF Numbered
  <1>16. StreamOK'
    <2>1. \A b \in Attempt : \E n \in Nat : events'[b] = 1..n
      <3> SUFFICES ASSUME NEW b \in Attempt
                   PROVE  \E n \in Nat : events'[b] = 1..n
        OBVIOUS
      <3>1. CASE b = a
        <4>1. m + 1 \in Nat
          OBVIOUS
        <4> QED
          BY <1>3, <1>7, <3>1, <4>1
      <3>2. CASE b # a
        BY <1>3, <1>7, <3>2 DEF SessInv, StreamOK
      <3> QED
        BY <3>1, <3>2
    <2>2. \A b \in Attempt : \A d, e \in Numbered(b)' : d = e
      BY <1>14 DEF SessInv, StreamOK
    <2>3. ASSUME NEW d \in Client, HasRun(d)'
          PROVE  /\ req'[d].seq > 0 /\ 1..(req'[d].seq - 1) \subseteq events'[AttemptOf(d)']
                 /\ req'[d].stage = "flushed" => req'[d].seq \notin events'[AttemptOf(d)']
      <3> DEFINE b == AttemptOf(d)
      <3>1. /\ SameSend(d) /\ HasRun(d) /\ d # c /\ AttemptOf(d)' = b /\ b \in Attempt
            /\ req'[d].seq = req[d].seq /\ req'[d].stage = req[d].stage
        BY <1>12, <2>3 DEF SameSend
      <3>2. /\ req[d].seq > 0 /\ 1..(req[d].seq - 1) \subseteq events[b]
            /\ req[d].stage = "flushed" => req[d].seq \notin events[b]
        BY <3>1 DEF SessInv, StreamOK
      <3>3. events[b] \subseteq evs[b]
        <4>1. 1..m \subseteq 1..(m + 1)
          OBVIOUS
        <4> QED
          BY <1>6, <1>7, <3>1, <4>1
      <3>4. req[d].stage = "flushed" => b # a
        BY <1>15, <3>1 DEF SessInv, StreamOK, Numbered, HasRun
      <3> QED
        BY <1>3, <1>7, <3>1, <3>2, <3>3, <3>4
    <2> QED
      BY <2>1, <2>2, <2>3 DEF StreamOK
  <1> QED
    BY <1>4, <1>5, <1>10, <1>11, <1>13, <1>16 DEF SessInv

\* Every step keeps the invariant, gives no session another attempt and brings no lease back.
LEMMA SessStep ==
  ASSUME SessInv, [Next]_vars
  PROVE  SessInv' /\ SessKept /\ LeasesKept
  <1>1. ASSUME NEW c \in Client, NEW s \in Sess, NEW cur \in 0..MaxLeases,
               \/ \E who \in Operator : Acquire(c, s, who, cur)
               \/ \E r \in Request, k \in 1..Len(lease[s]) :
                     \/ \E a \in {"whoami", "terminate"} : Dispatch(c, s, r, a, k, cur)
                     \/ \E fits \in BOOLEAN : SubmitFrame(c, s, r, k, cur, fits)
        PROVE  SessInv' /\ SessKept /\ LeasesKept
    BY <1>1, AcquireStep, DispatchStep, SubmitFrameStep
  <1>2. ASSUME NEW c \in Client,
               Acquired(c) \/ Flush(c) \/ Wake(c) \/ Refused(c) \/ Recorded(c) \/ Rollback(c)
        PROVE  SessInv' /\ SessKept /\ LeasesKept
    BY <1>2, AcquiredStep, FlushStep, WakeStep, RefusedStep, RecordedStep, RollbackStep
  <1>3. ASSUME NEW s \in Sess, NEW i \in 1..MaxLeases, Heartbeat(s, i) \/ LeaseElapses(s, i)
        PROVE  SessInv' /\ SessKept /\ LeasesKept
    BY <1>3, HeartbeatStep, LeaseElapsesStep
  <1>4. ASSUME NEW s \in Sess, Disconnect(s) \/ Terminate(s) \/ Reconcile(s)
        PROVE  SessInv' /\ SessKept /\ LeasesKept
    <2>1. CASE Disconnect(s)
      <3>1. sess[s] \in Session
        BY <2>1 DEF Disconnect, Known, SessInv, TypeOK
      <3>2. sess[s].state \in InputOk \cup Ended
        BY <3>1 DEF Session
      <3> QED
        BY <2>1, <3>2, EndStep DEF Disconnect
    <2>2. CASE Terminate(s) \/ Reconcile(s)
      <3>1. End(s, "ENDED")
        BY <2>2 DEF Terminate, Reconcile
      <3>2. "ENDED" \in InputOk \cup Ended
        BY DEF Ended
      <3> QED
        BY <3>1, <3>2, EndStep
    <2> QED
      BY <1>4, <2>1, <2>2
  <1>5. ASSUME NEW s \in Sess, GrantTerminal(s) \/ GrantElapses(s)
        PROVE  SessInv' /\ SessKept /\ LeasesKept
    BY <1>5, TerminalStep
  <1>6. ASSUME NEW s \in Sess, NEW a \in Attempt, NEW ok \in BOOLEAN, Establish(s, a, ok)
        PROVE  SessInv' /\ SessKept /\ LeasesKept
    BY <1>6, EstablishStep
  <1>7. CASE UNCHANGED vars
    <2>1. /\ rec' = rec /\ events' = events /\ terminal' \subseteq Sess /\ req' = req
          /\ lease' = lease /\ sess' = sess
      BY <1>7 DEF vars, SessInv, TypeOK
    <2> QED
      BY <2>1, NoneRunsKeeps, NoRequest, SameLeases, SameSessions DEF SessInv
  <1> QED
    BY <1>1, <1>2, <1>3, <1>4, <1>5, <1>6, <1>7 DEF Next

LEMMA SessInitHolds == Init => SessInv
  <1> SUFFICES ASSUME Init
               PROVE  SessInv
    OBVIOUS
  <1>1. TypeOK
    <2>1. << >> \in Seq(Lease) /\ Len(<< >>) = 0
      OBVIOUS
    <2>2. \A s \in Sess : lease[s] = << >>
      BY DEF Init
    <2>3. lease \in [Sess -> Seq(Lease)] /\ \A s \in Sess : Len(lease[s]) <= MaxLeases
      BY <2>1, <2>2, LabSessionAssumption DEF Init
    <2> QED
      BY <2>3 DEF Init, TypeOK, Record
  <1>2. \A c \in Client : req[c] = NoReq
    BY DEF Init
  <1>3. SubjectsKnown /\ RunsAlone
    BY <1>2 DEF SubjectsKnown, RunsAlone, HasRun, Sender
  <1>4. StreamOK
    <2>1. \A a \in Attempt : events[a] = 1..0
      BY DEF Init
    <2>2. \A a \in Attempt : Numbered(a) = {}
      BY <1>2 DEF Numbered, Sender
    <2>3. \A c \in Client : ~HasRun(c)
      BY <1>2 DEF HasRun, Sender
    <2> QED
      BY <2>1, <2>2, <2>3 DEF StreamOK
  <1> QED
    BY <1>1, <1>3, <1>4 DEF SessInv

\* SessInv holds in every state that requests on sessions can reach.
THEOREM SessInvariance == Spec => []SessInv
  BY SessInitHolds, SessStep, PTL DEF Spec

\* Sessions, leases, records and transactions keep their types (models/__init__.py:764-862);
\* no session is given more leases than there may be.
THEOREM SessionTypeCorrect == Spec => []TypeOK
  <1>1. SessInv => TypeOK
    BY DEF SessInv
  <1> QED
    BY <1>1, SessInvariance, PTL

\* dispatch and submit_frame (guided.py:112-118, 134-142; terminal.py:92-97): however many
\* requests carry one id, on however many servers, one transaction acts for it.
THEOREM RequestsActOnce == Spec => []ActsOnce
  <1>1. SessInv => ActsOnce
    <2> SUFFICES ASSUME SessInv, NEW k \in Key
                 PROVE  Cardinality({c \in Client : HasRun(c) /\ req[c].key = k})
                            + (IF rec[k] # "NONE" THEN 1 ELSE 0) <= 1
      BY DEF ActsOnce
    <2> DEFINE who == {c \in Client : HasRun(c) /\ req[c].key = k}
    <2>1. CASE who = {}
      <3>1. Cardinality({}) = 0
        BY FS_EmptySet
      <3>2. Cardinality(who) = 0
        BY <2>1, <3>1
      <3> HIDE DEF who
      <3>3. Cardinality(who) + (IF rec[k] # "NONE" THEN 1 ELSE 0) <= 1
        BY <3>2
      <3> QED
        BY <3>3 DEF who
    <2>2. CASE who # {}
      <3>1. PICK c \in Client : HasRun(c) /\ req[c].key = k
        BY <2>2
      <3>2. rec[k] = "NONE"
        BY <3>1 DEF SessInv, RunsAlone
      <3>3. who = {c}
        BY <3>1 DEF SessInv, RunsAlone
      <3>4. Cardinality({c}) = 1
        BY FS_Singleton
      <3>5. Cardinality(who) = 1
        BY <3>3, <3>4
      <3> HIDE DEF who
      <3>6. Cardinality(who) + (IF rec[k] # "NONE" THEN 1 ELSE 0) <= 1
        BY <3>2, <3>5
      <3> QED
        BY <3>6 DEF who
    <2> QED
      BY <2>1, <2>2
  <1> QED
    BY <1>1, SessInvariance, PTL

\* acquire_lease, heartbeat and release_lease (session_broker.py:101-190): however many
\* writers take over from each other, none that has been fenced is let in again.
THEOREM FencingIsFinal == Spec => FencedStaysFenced
  <1>1. SessInv /\ [Next]_vars =>
          [\A s \in Sess : \A i \in 1..Len(lease[s]) :
              lease[s][i].state = "inactive" => lease'[s][i].state = "inactive"]_vars
    BY SessStep DEF LeasesKept
  <1> QED
    BY <1>1, SessInvariance, PTL DEF Spec, FencedStaysFenced

---------------------------------------------------------------------------

\* An attempt has gained no session that takes input.
NoneLives == \A a \in Attempt : Live(a)' \subseteq Live(a)

LEMMA EndLives ==
  ASSUME SessInv, NEW s \in Sess, sess[s] # NoSess, NEW st \in InputOk \cup Ended,
         st \in InputOk => sess[s].state \in InputOk,
         sess' = [sess EXCEPT ![s].state = st]
  PROVE  NoneLives
  <1>1. sess[s] \in Session
    BY DEF SessInv, TypeOK
  <1>2. sess'[s].state = st /\ sess'[s].attempt = sess[s].attempt
    BY <1>1 DEF SessInv, TypeOK, Session
  <1>3. \A z \in Sess : z # s => sess'[z] = sess[z]
    BY DEF SessInv, TypeOK
  <1> QED
    BY <1>2, <1>3 DEF NoneLives, Live

\* establish and acquire_lease (session_broker.py:58-80, 119-142): a session takes input
\* only when it is adopted alone, or again by a request that had loaded it while it did.
THEOREM AdoptedAlone == Spec => LiveOnlyOnce
  <1> DEFINE Good == \A a \in Attempt : \A s \in Live(a)' \ Live(a) :
                \/ sess[s] = NoSess /\ Live(a) = {}
                \/ \E c \in Client : /\ req[c] # NoReq /\ req[c].op = "lease" /\ req[c].s = s
                                     /\ req[c].seen \in InputOk /\ req'[c] = NoReq
  <1>1. NoneLives => Good
    BY DEF NoneLives
  <1>2. ASSUME SessInv, NEW s \in Sess, NEW b \in Attempt, NEW ok \in BOOLEAN, Establish(s, b, ok)
        PROVE  Good
    <2>1. /\ sess[s] = NoSess /\ sess'[s].attempt = b
          /\ sess'[s].state \in InputOk => Live(b) = {}
          /\ \A z \in Sess : z # s => sess'[z] = sess[z]
      BY <1>2 DEF Establish, Adopted, InputOk, SessInv, TypeOK
    <2> SUFFICES ASSUME NEW a \in Attempt, NEW z \in Live(a)' \ Live(a)
                 PROVE  sess[z] = NoSess /\ Live(a) = {}
      OBVIOUS
    <2>2. z = s
      BY <2>1 DEF Live
    <2>3. a = b /\ sess'[s].state \in InputOk
      BY <2>1, <2>2 DEF Live
    <2> QED
      BY <2>1, <2>2, <2>3
  <1>3. ASSUME SessInv, NEW c \in Client, Acquired(c)
        PROVE  Good
    <2> DEFINE r == req[c]
    <2>1. r # NoReq /\ r.op = "lease" /\ r \in Acquiring /\ req'[c] = NoReq
      BY <1>3 DEF Acquired, SessInv, TypeOK, Sending
    <2>2. r.s \in Sess /\ sess[r.s] \in Session /\ r.seen \in InputOk \cup Ended
      BY <1>3, <2>1, SubjectTyped DEF Subject, Acquiring
    <2>3. CASE r.extend
      BY <1>3, <1>1, <2>3 DEF Acquired, NoneLives, Live
    <2>4. CASE ~r.extend /\ r.seen = "READY"
      <3>1. \A z \in Sess : z # r.s => sess'[z] = sess[z]
        BY <1>3, <2>4 DEF Acquired, SessInv, TypeOK
      <3>2. \A a \in Attempt : \A z \in Live(a)' \ Live(a) : z = r.s
        BY <3>1 DEF Live
      <3>3. r.seen \in InputOk
        BY <2>4 DEF InputOk
      <3> QED
        BY <2>1, <3>2, <3>3
    <2>5. CASE ~r.extend /\ r.seen # "READY"
      <3> DEFINE st == sess[r.s].state
      <3>1. sess' = [sess EXCEPT ![r.s].state = st]
        BY <1>3, <2>5 DEF Acquired, Controlled
      <3>2. st \in InputOk \cup Ended /\ sess[r.s] # NoSess
        BY <2>2, NoneAssumption DEF Session
      <3> QED
        BY <1>1, <1>3, <2>2, <3>1, <3>2, EndLives
    <2> QED
      BY <2>3, <2>4, <2>5
  <1>4. ASSUME SessInv, NEW s \in Sess, Disconnect(s) \/ Terminate(s) \/ Reconcile(s)
        PROVE  Good
    <2>1. PICK state \in {sess[s].state, "ENDED"} : End(s, state)
      BY <1>4 DEF Disconnect, Terminate, Reconcile
    <2>2. sess[s] # NoSess /\ sess[s] \in Session
      BY <2>1, <1>4 DEF End, Known, SessInv, TypeOK
    <2> DEFINE st == IF state = "CONTROLLED" THEN "READY" ELSE state
    <2>3. st \in InputOk \cup Ended /\ (st \in InputOk => sess[s].state \in InputOk)
      BY <2>2 DEF Session, InputOk, Ended
    <2>4. sess' = [sess EXCEPT ![s].state = st]
      BY <2>1 DEF End, Released
    <2> HIDE DEF st
    <2> QED
      BY <1>1, <1>4, <2>2, <2>3, <2>4, EndLives
  <1>5. ASSUME SessInv, NEW c \in Client, Recorded(c)
        PROVE  Good
    <2> DEFINE s == req[c].key[2]
    <2>1. s \in Sess /\ sess[s] # NoSess
      BY <1>5, SenderTyped DEF Recorded
    <2>2. CASE req[c].ends
      <3>1. sess' = [sess EXCEPT ![s].state = "ENDED"]
        BY <1>5, <2>2 DEF Recorded
      <3>2. "ENDED" \in InputOk \cup Ended /\ "ENDED" \notin InputOk
        BY DEF InputOk, Ended
      <3> QED
        BY <1>1, <1>5, <2>1, <3>1, <3>2, EndLives
    <2>3. CASE ~req[c].ends
      BY <1>1, <1>5, <2>3 DEF Recorded, NoneLives, Live
    <2> QED
      BY <2>2, <2>3
  <1>6. ASSUME sess' = sess
        PROVE  Good
    BY <1>1, <1>6 DEF NoneLives, Live
  <1> HIDE DEF Good
  <1>7. SessInv /\ [Next]_vars => Good
    <2> SUFFICES ASSUME SessInv, [Next]_vars
                 PROVE  Good
      OBVIOUS
    <2>1. ASSUME NEW s \in Sess, NEW b \in Attempt, NEW ok \in BOOLEAN, Establish(s, b, ok)
          PROVE  Good
      BY <1>2, <2>1
    <2>2. ASSUME NEW c \in Client, Acquired(c) \/ Recorded(c)
          PROVE  Good
      BY <1>3, <1>5, <2>2
    <2>3. ASSUME NEW s \in Sess, Disconnect(s) \/ Terminate(s) \/ Reconcile(s)
          PROVE  Good
      BY <1>4, <2>3
    <2>4. ASSUME NEW c \in Client, Flush(c) \/ Wake(c) \/ Refused(c) \/ Rollback(c)
          PROVE  Good
      BY <1>6, <2>4 DEF Flush, Wake, Refused, Rollback
    <2>5. ASSUME NEW s \in Sess, NEW i \in 1..MaxLeases, Heartbeat(s, i) \/ LeaseElapses(s, i)
          PROVE  Good
      BY <1>6, <2>5 DEF Heartbeat, LeaseElapses
    <2>6. ASSUME NEW c \in Client, NEW s \in Sess, NEW cur \in 0..MaxLeases,
                 \/ \E who \in Operator : Acquire(c, s, who, cur)
                 \/ \E r \in Request, k \in 1..Len(lease[s]) :
                       \/ \E a \in {"whoami", "terminate"} : Dispatch(c, s, r, a, k, cur)
                       \/ \E fits \in BOOLEAN : SubmitFrame(c, s, r, k, cur, fits)
          PROVE  Good
      BY <1>6, <2>6 DEF Acquire, Dispatch, SubmitFrame, Check
    <2>7. ASSUME NEW s \in Sess, GrantTerminal(s) \/ GrantElapses(s)
          PROVE  Good
      BY <1>6, <2>7 DEF GrantTerminal, GrantElapses
    <2>8. CASE UNCHANGED vars
      BY <1>6, <2>8 DEF vars
    <2> QED
      BY <2>1, <2>2, <2>3, <2>4, <2>5, <2>6, <2>7, <2>8 DEF Next
  <1>8. SessInv /\ [Next]_vars => [Good]_vars
    BY <1>7
  <1> QED
    BY <1>8, SessInvariance, PTL DEF Spec, LiveOnlyOnce, Good

\* stream._append (stream.py:64-69): with any number of writers the stream of an attempt is
\* committed number by number.
THEOREM StreamHasNoGap == Spec => StreamInOrder
  <1> DEFINE Good == \A a \in Attempt : \A n \in events'[a] \ events[a] : events[a] = 1..(n - 1)
  <1>1. ASSUME SessInv, NEW c \in Client, Recorded(c)
        PROVE  Good
    <2> DEFINE b == AttemptOf(c)
    <2>1. HasRun(c) /\ b \in Attempt /\ req[c].stage = "flushed"
      BY <1>1, SenderTyped DEF Recorded, HasRun
    <2>2. req[c].seq \notin events[b]
      BY <1>1, <2>1 DEF SessInv, StreamOK
    <2>3. PICK m \in Nat : events[b] = 1..m /\ req[c].seq = m + 1
      BY <1>1, <2>1, <2>2, NextNumber
    <2>4. \A a \in Attempt : events'[a] = IF a = b THEN events[a] \cup {m + 1} ELSE events[a]
      BY <1>1, <2>3 DEF Recorded, SessInv, TypeOK
    <2> HIDE DEF b
    <2> SUFFICES ASSUME NEW a \in Attempt, NEW n \in events'[a] \ events[a]
                 PROVE  events[a] = 1..(n - 1)
      OBVIOUS
    <2>5. a = b /\ n = m + 1
      BY <2>4
    <2>6. n - 1 = m
      BY <2>5
    <2> QED
      BY <2>3, <2>5, <2>6
  <1>2. ASSUME events' = events
        PROVE  Good
    BY <1>2
  <1> HIDE DEF Good
  <1>3. SessInv /\ [Next]_vars => Good
    <2> SUFFICES ASSUME SessInv, [Next]_vars
                 PROVE  Good
      OBVIOUS
    <2>1. ASSUME NEW c \in Client, Recorded(c)
          PROVE  Good
      BY <1>1, <2>1
    <2>2. ASSUME NEW c \in Client, Acquired(c) \/ Flush(c) \/ Wake(c) \/ Refused(c) \/ Rollback(c)
          PROVE  Good
      BY <1>2, <2>2 DEF Acquired, Flush, Wake, Refused, Rollback
    <2>3. ASSUME NEW s \in Sess, NEW i \in 1..MaxLeases, Heartbeat(s, i) \/ LeaseElapses(s, i)
          PROVE  Good
      BY <1>2, <2>3 DEF Heartbeat, LeaseElapses
    <2>4. ASSUME NEW s \in Sess, \/ GrantTerminal(s) \/ GrantElapses(s)
                                 \/ Disconnect(s) \/ Terminate(s) \/ Reconcile(s)
          PROVE  Good
      BY <1>2, <2>4 DEF Disconnect, Terminate, Reconcile, End, GrantTerminal, GrantElapses
    <2>5. ASSUME NEW c \in Client, NEW s \in Sess, NEW cur \in 0..MaxLeases,
                 \/ \E who \in Operator : Acquire(c, s, who, cur)
                 \/ \E r \in Request, k \in 1..Len(lease[s]) :
                       \/ \E a \in {"whoami", "terminate"} : Dispatch(c, s, r, a, k, cur)
                       \/ \E fits \in BOOLEAN : SubmitFrame(c, s, r, k, cur, fits)
          PROVE  Good
      BY <1>2, <2>5 DEF Acquire, Dispatch, SubmitFrame, Check
    <2>6. ASSUME NEW s \in Sess, NEW b \in Attempt, NEW ok \in BOOLEAN, Establish(s, b, ok)
          PROVE  Good
      BY <1>2, <2>6 DEF Establish
    <2>7. CASE UNCHANGED vars
      BY <1>2, <2>7 DEF vars
    <2> QED
      BY <2>1, <2>2, <2>3, <2>4, <2>5, <2>6, <2>7 DEF Next
  <1>4. SessInv /\ [Next]_vars => [Good]_vars
    BY <1>3
  <1> QED
    BY <1>4, SessInvariance, PTL DEF Spec, StreamInOrder, Good

=============================================================================
