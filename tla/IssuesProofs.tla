---------------------------- MODULE IssuesProofs ---------------------------
(***************************************************************************)
(* Theorems about Issues.  Recordings, backfills and reviews of one target   *)
(* load, decide and commit in any order: what a comparison denies was looked *)
(* for, what a run has seen has its issue, and a closed issue that is seen   *)
(* again comes back.                                                        *)
(*                                                                         *)
(* The invariant is about the open transactions: what one of them is about   *)
(* to write still fits the tables.  The recordings of a target take turns,   *)
(* which keeps the baseline that was compared with the last one; issues are  *)
(* never deleted, and the unique keys make a derivation that was overtaken   *)
(* fail as a whole.                                                         *)
(***************************************************************************)
EXTENDS Issues, TLAPS

\* An issue is created once and never deleted.
Existing == {i \in Issue : issue[i] # NoIssue}

Recorded == {"COMPLETED", "TIMED_OUT"}

\* The results of a run are in the tables from the commit of its recording on.
RunsOK ==
    /\ \A k \in 1..Len(log) : run[log[k]].state \in Recorded
    /\ \A e \in Exec : run[e].state \notin Recorded => run[e].seen = {}

\* A baseline, where there is one, is the candidate that finished last.
LastCandidate ==
    \A e \in Exec : Candidates(e) # {} => \E k \in Candidates(e) : \A j \in Candidates(e) : j <= k

\* What a derivation is about to write still fits the tables, whatever was committed
\* since it loaded them: an issue it relies on is there, and what it reopens it has seen.
DerivationOK(c) ==
    /\ \A p \in txn[c].adds : IssueOf[p[2]] \in txn[c].creates \cup Existing
    /\ txn[c].reopens \subseteq txn[c].closed /\ txn[c].closed \subseteq Existing
    /\ \A i \in txn[c].reopens : \E p \in txn[c].adds : IssueOf[p[2]] = i

\* A backfill has no results of its own, and what it adds has been seen.
BackfillOK(c) == txn[c].e = 0 /\ \A p \in txn[c].adds : p[2] \in run[p[1]].seen

\* The recording of a run: the run is still open, its baseline is what it was, and it
\* reopens every issue it has found closed and seen.
Recording(e) ==
    LET d == txn[Worker]
        r == d.run
    IN  /\ d.e = e /\ run[e].state = "QUEUED" /\ r.state \in Recorded
        /\ r.state = "TIMED_OUT" => d.adds = {} /\ r.absent = {}
        /\ r.state = "COMPLETED" =>
              /\ d.adds = {e} \X r.seen
              /\ r.absent = Absent(Baseline(e), r.seen, r.assessed)
              /\ \A i \in d.closed, f \in r.seen : IssueOf[f] = i => i \in d.reopens

PendingOK(c) ==
    /\ Deriving(c) => DerivationOK(c)
    /\ Deriving(c) /\ c # Worker => BackfillOK(c)
    /\ c = Worker /\ txn[c] # NoTxn => Deriving(c) /\ \E e \in Exec : Recording(e)
    /\ txn[c] # NoTxn /\ ~Deriving(c) => txn[c].i \in Existing

IssuesInv ==
    /\ IssuesTypeOK
    /\ RunsOK /\ LastCandidate
    /\ \A c \in Actor : PendingOK(c)
    /\ NegativeIsCovered /\ AbsenceIsRecorded /\ EverySightingProjected

---------------------------------------------------------------------------
(* The operators. *)

LEMMA BaselineIs ==
    ASSUME IssuesTypeOK, LastCandidate, NEW e \in Exec
    PROVE  \/ Baseline(e) = 0
           \/ \E k \in 1..Len(log) : Baseline(e) = log[k] /\ run[log[k]].state = "COMPLETED"
<1>1. CASE Candidates(e) = {}
  BY <1>1 DEF Baseline
<1>2. CASE Candidates(e) # {}
  <2> DEFINE k == CHOOSE k \in Candidates(e) : \A j \in Candidates(e) : j <= k
  <2>1. k \in Candidates(e)
    <3>1. \E x \in Candidates(e) : \A j \in Candidates(e) : j <= x
      BY <1>2 DEF LastCandidate
    <3> QED BY <3>1
  <2>2. Baseline(e) = log[k]
    BY <1>2 DEF Baseline
  <2> HIDE DEF k
  <2> QED BY <2>1, <2>2 DEF Candidates
<1> QED BY <1>1, <1>2

\* What is recorded stays the baseline of what comes later, until more is recorded.
LEMMA BaselineKept ==
    ASSUME NEW e \in Exec, LastCandidate, Candidates(e)' = Candidates(e),
           \A k \in Candidates(e) : log'[k] = log[k]
    PROVE  Baseline(e)' = Baseline(e)
<1>1. CASE Candidates(e) = {}
  BY <1>1 DEF Baseline
<1>2. CASE Candidates(e) # {}
  <2> DEFINE C == Candidates(e)
             k == CHOOSE k \in C : \A j \in C : j <= k
  <2>1. \E x \in C : \A j \in C : j <= x
    BY <1>2 DEF LastCandidate
  <2>2. k \in C
    BY <2>1
  <2>3. Baseline(e) = log[k]
    BY <1>2 DEF Baseline
  <2>4. Baseline(e)' = log'[k]
    BY <1>2 DEF Baseline
  <2> HIDE DEF k, C
  <2>5. C = Candidates(e)
    BY DEF C
  <2> QED BY <2>2, <2>3, <2>4, <2>5
<1> QED BY <1>1, <1>2

LEMMA AbsentIs ==
    ASSUME IssuesTypeOK, NEW b \in 0..Runs, NEW seen, NEW assessed
    PROVE  /\ Absent(b, seen, assessed) \subseteq Finding
           /\ \A f \in Absent(b, seen, assessed) : f \notin seen /\ ToolOf[f] \in assessed
           /\ b # 0 => \A f \in run[b].seen \ seen : ToolOf[f] \in assessed => f \in Absent(b, seen, assessed)
<1>1. CASE b = 0
  BY <1>1 DEF Absent
<1>2. CASE b # 0
  <2>1. b \in Exec
    BY <1>2, IssuesAssumption DEF Exec
  <2>2. run[b].seen \subseteq Finding
    BY <2>1 DEF IssuesTypeOK, Run
  <2> QED BY <1>2, <2>2 DEF Absent
<1> QED BY <1>1, <1>2

LEMMA MarkedIs ==
    ASSUME IssuesTypeOK, NEW seen, NEW absent, NEW f \in Finding
    PROVE  /\ f \in absent => Marked(seen, absent)[f] = "NOT_OBSERVED"
           /\ f \notin absent /\ f \in seen => Marked(seen, absent)[f] = "OBSERVED"
           /\ f \notin absent /\ f \notin seen => Marked(seen, absent)[f] = status[f]
  BY DEF Marked

\* A derivation as it is loaded.
LEMMA DeriveIs ==
    ASSUME IssuesTypeOK, NEW e \in 0..Runs, NEW r \in Run,
           NEW sightings \in SUBSET (Exec \X Finding), NEW st,
           NEW d, d = Derive(e, r, sightings, st)
    PROVE  /\ d \in Derivation /\ d # NoTxn
           /\ d.op = "derive" /\ d.e = e /\ d.run = r /\ d.adds = sightings \ occ
           /\ \A p \in d.adds : IssueOf[p[2]] \in d.creates \cup Existing
           /\ d.closed = Closed
           /\ d.reopens = Reopened(d.adds, st)
<1> DEFINE adds == sightings \ occ
           creates == {IssueOf[p[2]] : p \in sightings} \ {i \in Issue : issue[i] # NoIssue}
<1>1. d = [op |-> "derive", e |-> e, run |-> r, adds |-> adds, creates |-> creates,
           closed |-> Closed, reopens |-> Reopened(adds, st)]
  BY DEF Derive, Missing
<1>2. adds \subseteq Exec \X Finding /\ creates \subseteq Issue
  BY IssuesAssumption
<1>3. Closed \subseteq Issue /\ Reopened(adds, st) \subseteq Issue
  BY DEF Closed, Reopened
<1>4. \A p \in adds : IssueOf[p[2]] \in creates \cup Existing
  BY IssuesAssumption DEF Existing
<1> HIDE DEF adds, creates
<1>5. d \in Derivation
  BY <1>1, <1>2, <1>3 DEF Derivation
<1>6. d # NoTxn
  BY <1>5, ActorsAssumption
<1>7. d.adds = adds /\ d.creates = creates
  BY <1>1
<1>8. d.op = "derive" /\ d.e = e /\ d.run = r /\ d.closed = Closed /\ d.reopens = Reopened(adds, st)
  BY <1>1
<1>9. adds = sightings \ occ
  BY DEF adds
<1> QED BY <1>4, <1>5, <1>6, <1>7, <1>8, <1>9

LEMMA ReopenedIs ==
    ASSUME NEW adds, NEW st
    PROVE  /\ Reopened(adds, st) \subseteq Closed /\ Closed \subseteq Existing
           /\ \A i \in Reopened(adds, st) : \E p \in adds : IssueOf[p[2]] = i
           /\ \A i \in Closed : \A p \in adds : IssueOf[p[2]] = i /\ st[p[2]] = "OBSERVED" => i \in Reopened(adds, st)
  BY DEF Reopened, Closed, Existing

---------------------------------------------------------------------------
(* Loads: only the transaction of the actor that loads changes. *)

LEMMA Same ==
    ASSUME UNCHANGED <<run, log>>, NEW e \in Exec
    PROVE  Candidates(e)' = Candidates(e) /\ Baseline(e)' = Baseline(e)
  BY DEF Candidates, Baseline

LEMMA SameTables ==
    ASSUME IssuesInv, UNCHANGED <<run, log, status, issue, occ>>
    PROVE  /\ Existing' = Existing /\ RunsOK' /\ LastCandidate'
           /\ NegativeIsCovered' /\ AbsenceIsRecorded' /\ EverySightingProjected'
<1>1. Existing' = Existing /\ RunsOK'
  BY DEF Existing, RunsOK, IssuesInv
<1>2. LastCandidate'
  BY Same DEF IssuesInv, LastCandidate
<1>3. NegativeIsCovered' /\ EverySightingProjected'
  BY DEF IssuesInv, NegativeIsCovered, EverySightingProjected
<1>4. AbsenceIsRecorded'
  <2>1. AbsenceIsRecorded
    BY DEF IssuesInv
  <2>2. log # << >> => log[Len(log)] \in Exec
    BY DEF IssuesInv, IssuesTypeOK
  <2>3. log # << >> => Baseline(log[Len(log)])' = Baseline(log[Len(log)])
    BY DEF Baseline, Candidates
  <2> QED BY <2>1, <2>3 DEF AbsenceIsRecorded
<1> QED BY <1>1, <1>2, <1>3, <1>4

LEMMA RecordingSame ==
    ASSUME UNCHANGED <<run, log>>, txn'[Worker] = txn[Worker], NEW e \in Exec, Recording(e)
    PROVE  Recording(e)'
<1>1. Baseline(e)' = Baseline(e)
  BY Same
<1> QED BY <1>1 DEF Recording, Absent

LEMMA PendingSame ==
    ASSUME IssuesInv, UNCHANGED <<run, log, status, issue, occ>>, NEW u \in Actor, txn'[u] = txn[u]
    PROVE  PendingOK(u)'
<1>1. PendingOK(u) /\ Existing' = Existing
  BY SameTables DEF IssuesInv
<1>2. Deriving(u)' = Deriving(u)
  BY DEF Deriving
<1>3. DerivationOK(u)' = DerivationOK(u) /\ BackfillOK(u)' = BackfillOK(u)
  BY <1>1 DEF DerivationOK, BackfillOK
<1>4. ASSUME u = Worker, NEW e \in Exec, Recording(e) PROVE Recording(e)'
  BY <1>4, RecordingSame
<1> QED BY <1>1, <1>2, <1>3, <1>4 DEF PendingOK

LEMMA LoadKeeps ==
    ASSUME IssuesInv, NEW c \in Actor, UNCHANGED <<run, log, status, issue, occ>>,
           NEW x \in Derivation \cup Review \cup {NoTxn}, txn' = [txn EXCEPT ![c] = x], PendingOK(c)'
    PROVE  IssuesInv'
<1>1. txn \in [Actor -> Derivation \cup Review \cup {NoTxn}]
  BY DEF IssuesInv, IssuesTypeOK
<1>2. \A u \in Actor : PendingOK(u)'
  <2> SUFFICES ASSUME NEW u \in Actor, u # c PROVE PendingOK(u)'
    OBVIOUS
  <2>1. txn'[u] = txn[u]
    BY <1>1
  <2> QED BY <2>1, PendingSame
<1>3. txn' \in [Actor -> Derivation \cup Review \cup {NoTxn}]
  BY <1>1
<1>4. IssuesTypeOK'
  BY <1>3 DEF IssuesInv, IssuesTypeOK
<1> QED BY <1>2, <1>4, SameTables DEF IssuesInv

\* A review loads an issue that is there.
LEMMA ReviewLoads ==
    ASSUME IssuesInv, NEW c \in Admin, NEW i \in Issue,
           NEW op \in {"assign", "mitigate", "accept", "close"}, Open(c, i, op)
    PROVE  IssuesInv'
<1> DEFINE x == [op |-> op, i |-> i, seen |-> issue[i].state, flag |-> op = "close" /\ issue[i].reopened]
<1>1. issue[i] \in IssueRow /\ issue[i] # NoIssue
  BY DEF Open, IssuesInv, IssuesTypeOK
<1>2. issue[i].state \in Remediation /\ (op = "close" /\ issue[i].reopened) \in BOOLEAN
  BY <1>1 DEF IssueRow
<1>3. x \in Review
  BY <1>2 DEF Review
<1>4. x.op = op /\ x.i = i
  OBVIOUS
<1>5. txn' = [txn EXCEPT ![c] = x] /\ UNCHANGED <<run, log, status, issue, occ>>
  BY DEF Open
<1> HIDE DEF x
<1>6. c \in Actor /\ c # Worker
  BY ActorsAssumption DEF Actor
<1>7. txn'[c] = x
  BY <1>5, <1>6 DEF IssuesInv, IssuesTypeOK
<1>8. ~Deriving(c)' /\ (i \in Existing)'
  BY <1>1, <1>4, <1>5, <1>7 DEF Deriving, Existing
<1>9. PendingOK(c)'
  BY <1>4, <1>6, <1>7, <1>8 DEF PendingOK
<1> QED BY <1>3, <1>5, <1>6, <1>9, LoadKeeps

LEMMA BackfillLoads == ASSUME IssuesInv, NEW c \in Admin, Backfill(c) PROVE IssuesInv'
<1> DEFINE s == {p \in Exec \X Finding : p[2] \in run[p[1]].seen}
           d == Derive(0, NoResults, s, status)
<1>1. txn' = [txn EXCEPT ![c] = d] /\ UNCHANGED <<run, log, status, issue, occ>>
  BY DEF Backfill
<1>2. NoResults \in Run /\ 0 \in 0..Runs /\ s \in SUBSET (Exec \X Finding) /\ IssuesTypeOK
  BY IssuesAssumption DEF NoResults, Run, IssuesInv
<1>3. /\ d \in Derivation /\ d # NoTxn
      /\ d.op = "derive" /\ d.e = 0 /\ d.adds = s \ occ
      /\ \A p \in d.adds : IssueOf[p[2]] \in d.creates \cup Existing
      /\ d.closed = Closed
      /\ d.reopens = Reopened(d.adds, status)
  <2> HIDE DEF s, d
  <2>1. d = Derive(0, NoResults, s, status)
    BY DEF d
  <2> QED BY <1>2, <2>1, DeriveIs
<1>4. d.adds \subseteq s
  BY <1>3
<1>5. \A p \in s : p[2] \in run[p[1]].seen
  OBVIOUS
<1> HIDE DEF s, d
<1>6. c \in Actor /\ c # Worker
  BY ActorsAssumption DEF Actor
<1>7. txn'[c] = d
  BY <1>1, <1>6 DEF IssuesInv, IssuesTypeOK
<1>8. Existing' = Existing /\ run' = run
  BY <1>1 DEF Existing
<1>9. Deriving(c)' /\ BackfillOK(c)'
  BY <1>3, <1>4, <1>5, <1>7, <1>8 DEF Deriving, BackfillOK
<1>10. DerivationOK(c)'
  BY <1>3, <1>7, <1>8, ReopenedIs DEF DerivationOK
<1>11. PendingOK(c)'
  BY <1>6, <1>7, <1>9, <1>10 DEF PendingOK
<1> QED BY <1>1, <1>3, <1>6, <1>11, LoadKeeps

\* The worker has recorded a run and not committed it.
LEMMA RecordingLoads ==
    ASSUME IssuesInv, NEW d \in Derivation, d # NoTxn, d.op = "derive",
           UNCHANGED <<run, log, status, issue, occ>>, txn' = [txn EXCEPT ![Worker] = d],
           \A p \in d.adds : IssueOf[p[2]] \in d.creates \cup Existing,
           d.closed = Closed, NEW st, d.reopens = Reopened(d.adds, st),
           NEW e \in Exec, d.e = e, run[e].state = "QUEUED", d.run.state \in Recorded,
           d.run.state = "TIMED_OUT" => d.adds = {} /\ d.run.absent = {},
           d.run.state = "COMPLETED" =>
              /\ d.adds = {e} \X d.run.seen
              /\ d.run.absent = Absent(Baseline(e), d.run.seen, d.run.assessed)
              /\ \A i \in d.closed, f \in d.run.seen : IssueOf[f] = i => i \in d.reopens
    PROVE  IssuesInv'
<1>1. Worker \in Actor /\ txn'[Worker] = d
  BY DEF Actor, IssuesInv, IssuesTypeOK
<1>2. Existing' = Existing /\ Deriving(Worker)'
  BY <1>1 DEF Existing, Deriving
<1>3. DerivationOK(Worker)'
  BY <1>1, <1>2, ReopenedIs DEF DerivationOK
<1>4. Recording(e)'
  <2>1. Baseline(e)' = Baseline(e)
    BY Same
  <2>2. Absent(Baseline(e), txn[Worker].run.seen, txn[Worker].run.assessed)'
          = Absent(Baseline(e), d.run.seen, d.run.assessed)
    BY <1>1, <2>1 DEF Absent
  <2> QED BY <1>1, <2>2 DEF Recording
<1>5. PendingOK(Worker)'
  BY <1>1, <1>2, <1>3, <1>4 DEF PendingOK
<1> QED BY <1>1, <1>5, LoadKeeps

LEMMA ResultsOK == \A res \in Results : res.seen \in SUBSET Finding /\ res.assessed \in SUBSET Tool
<1> SUFFICES ASSUME NEW res \in Results
    PROVE  res.seen \in SUBSET Finding /\ res.assessed \in SUBSET Tool
  OBVIOUS
<1>1. PICK o \in [Tool -> UNION {Output(t) : t \in Tool}] :
        /\ \A t \in Tool : o[t] \in Output(t)
        /\ res = [seen |-> UNION {o[t].found : t \in Tool},
                  assessed |-> {t \in Tool : CoverageOutcome(o[t]) = "ASSESSED"}]
  BY DEF Results
<1>2. \A t \in Tool : o[t].found \subseteq Finding
  BY <1>1 DEF Output
<1>3. UNION {o[t].found : t \in Tool} \subseteq Finding
  BY <1>2
<1> QED BY <1>1, <1>3

LEMMA PersistLoads ==
    ASSUME IssuesInv, NEW e \in Exec, NEW res \in Results, Persist(e, res) PROVE IssuesInv'
<1> DEFINE absent == Absent(Baseline(e), res.seen, res.assessed)
           r == [state |-> "COMPLETED", seen |-> res.seen, assessed |-> res.assessed, absent |-> absent]
           st == Marked(res.seen, absent)
           s == {e} \X res.seen
           d == Derive(e, r, s, st)
<1>1. /\ run[e].state = "QUEUED" /\ txn' = [txn EXCEPT ![Worker] = d]
      /\ UNCHANGED <<run, log, status, issue, occ>>
  BY DEF Persist
<1>2. IssuesTypeOK /\ LastCandidate /\ RunsOK /\ EverySightingProjected
  BY DEF IssuesInv
<1>3. res.seen \in SUBSET Finding /\ res.assessed \in SUBSET Tool
  BY ResultsOK
<1>4. Baseline(e) \in 0..Runs
  <2>1. \A k \in 1..Len(log) : log[k] \in Exec
    BY <1>2 DEF IssuesTypeOK
  <2> QED BY <1>2, <2>1, BaselineIs, IssuesAssumption DEF Exec
<1>5. absent \in SUBSET Finding /\ \A f \in absent : f \notin res.seen
  BY <1>2, <1>4, AbsentIs
<1>6. \A f \in res.seen : st[f] = "OBSERVED"
  <2> HIDE DEF absent
  <2> QED BY <1>2, <1>3, <1>5, MarkedIs
<1>7. absent = Absent(Baseline(e), res.seen, res.assessed)
  OBVIOUS
<1> HIDE DEF absent, st
<1>8. r \in Run /\ r.state = "COMPLETED" /\ r.seen = res.seen /\ r.assessed = res.assessed /\ r.absent = absent
  BY <1>3, <1>5 DEF Run
<1> HIDE DEF r
<1>9. s \in SUBSET (Exec \X Finding) /\ e \in 0..Runs
  BY <1>3, IssuesAssumption DEF Exec
<1>10. d = Derive(e, r, s, st)
  OBVIOUS
<1>14. s = {e} \X res.seen
  OBVIOUS
<1> HIDE DEF d, s
<1>11. /\ d \in Derivation /\ d # NoTxn
       /\ d.op = "derive" /\ d.e = e /\ d.run = r /\ d.adds = s \ occ
       /\ \A p \in d.adds : IssueOf[p[2]] \in d.creates \cup Existing
       /\ d.closed = Closed /\ d.reopens = Reopened(d.adds, st)
  BY <1>2, <1>8, <1>9, <1>10, DeriveIs
<1>12. d.adds = {e} \X res.seen
  <2>1. run[e].seen = {}
    BY <1>1, <1>2 DEF RunsOK, Recorded
  <2>2. \A p \in occ : p[1] # e
    BY <1>2, <2>1 DEF EverySightingProjected
  <2>3. \A p \in {e} \X res.seen : p \notin occ
    BY <2>2
  <2> QED BY <1>11, <1>14, <2>3
<1>13. \A i \in d.closed, f \in res.seen : IssueOf[f] = i => i \in d.reopens
  <2> SUFFICES ASSUME NEW i \in Closed, NEW f \in res.seen, IssueOf[f] = i PROVE i \in Reopened(d.adds, st)
    BY <1>11
  <2>1. <<e, f>> \in d.adds /\ <<e, f>>[2] = f
    BY <1>12
  <2> QED BY <1>6, <2>1, ReopenedIs
<1> QED BY <1>1, <1>7, <1>8, <1>11, <1>12, <1>13, RecordingLoads DEF Recorded

LEMMA PartialLoads ==
    ASSUME IssuesInv, NEW e \in Exec, NEW res \in Results, PersistPartial(e, res) PROVE IssuesInv'
<1> DEFINE r == [state |-> "TIMED_OUT", seen |-> res.seen, assessed |-> {}, absent |-> {}]
           s == {}
           d == Derive(e, r, s, status)
<1>1. /\ run[e].state = "QUEUED" /\ txn' = [txn EXCEPT ![Worker] = d]
      /\ UNCHANGED <<run, log, status, issue, occ>>
  BY DEF PersistPartial
<1>2. IssuesTypeOK
  BY DEF IssuesInv
<1>3. r \in Run /\ r.state = "TIMED_OUT" /\ r.absent = {}
  BY ResultsOK DEF Run
<1> HIDE DEF r
<1>4. s \in SUBSET (Exec \X Finding) /\ e \in 0..Runs
  BY IssuesAssumption DEF Exec
<1>5. s = {} /\ d = Derive(e, r, s, status)
  OBVIOUS
<1> HIDE DEF d, s
<1>6. /\ d \in Derivation /\ d # NoTxn
      /\ d.op = "derive" /\ d.e = e /\ d.run = r /\ d.adds = s \ occ
      /\ \A p \in d.adds : IssueOf[p[2]] \in d.creates \cup Existing
      /\ d.closed = Closed /\ d.reopens = Reopened(d.adds, status)
  BY <1>2, <1>3, <1>4, <1>5, DeriveIs
<1>7. d.adds = {}
  BY <1>5, <1>6
<1> QED BY <1>1, <1>3, <1>6, <1>7, RecordingLoads DEF Recorded

---------------------------------------------------------------------------
(* Commits. *)

\* What a request commits: no results, and no issue or occurrence is lost.
LEMMA RequestCommits ==
    ASSUME IssuesInv, NEW c \in Admin, UNCHANGED <<run, log, status>>,
           txn' = [txn EXCEPT ![c] = NoTxn],
           issue' \in [Issue -> IssueRow \cup {NoIssue}], Existing \subseteq Existing',
           occ \subseteq occ', \A p \in occ' : p \in Exec \X Finding /\ p[2] \in run[p[1]].seen
    PROVE  IssuesInv'
<1>1. txn \in [Actor -> Derivation \cup Review \cup {NoTxn}] /\ c \in Actor /\ c # Worker
  BY ActorsAssumption DEF IssuesInv, IssuesTypeOK, Actor
<1>2. txn' \in [Actor -> Derivation \cup Review \cup {NoTxn}]
  BY <1>1
<1>3. IssuesTypeOK'
  <2>1. occ' \subseteq Exec \X Finding
    OBVIOUS
  <2> QED BY <1>2, <2>1 DEF IssuesInv, IssuesTypeOK
<1>4. RunsOK' /\ LastCandidate'
  BY Same DEF IssuesInv, RunsOK, LastCandidate
<1>5. ASSUME NEW u \in Actor PROVE PendingOK(u)'
  <2>1. CASE u = c
    BY <1>1, <2>1 DEF PendingOK, Deriving
  <2>2. CASE u # c
    <3>1. txn'[u] = txn[u] /\ PendingOK(u)
      BY <1>1, <2>2 DEF IssuesInv
    <3>2. Deriving(u)' = Deriving(u)
      BY <3>1 DEF Deriving
    <3>3. DerivationOK(u) => DerivationOK(u)'
      BY <3>1 DEF DerivationOK
    <3>4. BackfillOK(u) => BackfillOK(u)'
      BY <3>1 DEF BackfillOK
    <3>5. ASSUME u = Worker, NEW e \in Exec, Recording(e) PROVE Recording(e)'
      BY <3>1, <3>5, RecordingSame
    <3> QED BY <3>1, <3>2, <3>3, <3>4, <3>5 DEF PendingOK
  <2> QED BY <2>1, <2>2
<1>6. NegativeIsCovered'
  BY DEF IssuesInv, NegativeIsCovered
<1>7. AbsenceIsRecorded'
  <2>1. Baseline(log[Len(log)])' = Baseline(log[Len(log)])
    BY DEF Baseline, Candidates
  <2> QED BY <2>1 DEF IssuesInv, AbsenceIsRecorded
<1>8. EverySightingProjected'
  <2>1. ASSUME NEW e \in Exec, run'[e].state = "COMPLETED", NEW f \in run'[e].seen
        PROVE  <<e, f>> \in occ' /\ issue'[IssueOf[f]] # NoIssue
    <3>1. run[e] \in Run /\ f \in Finding
      BY <2>1 DEF IssuesInv, IssuesTypeOK, Run
    <3>2. <<e, f>> \in occ /\ issue[IssueOf[f]] # NoIssue
      BY <2>1 DEF IssuesInv, EverySightingProjected
    <3>3. IssueOf[f] \in Existing
      BY <3>1, <3>2, IssuesAssumption DEF Existing
    <3> QED BY <3>2, <3>3 DEF Existing
  <2>2. \A p \in occ' : p[2] \in run'[p[1]].seen
    OBVIOUS
  <2> QED BY <2>1, <2>2 DEF EverySightingProjected
<1> QED BY <1>3, <1>4, <1>5, <1>6, <1>7, <1>8 DEF IssuesInv

\* The issues after the commit of a derivation whose keys do not collide.
LEMMA DerivedIssues ==
    ASSUME IssuesInv, NEW c \in Actor, Derived(c)
    PROVE  /\ issue' \in [Issue -> IssueRow \cup {NoIssue}]
           /\ Existing \subseteq Existing' /\ txn[c].creates \subseteq Existing'
           /\ \A i \in Issue : i \in txn[c].reopens =>
                 issue'[i].state = "OPEN" /\ issue'[i].reopened
           /\ \A i \in Existing \ txn[c].reopens : issue'[i] = issue[i]
           /\ txn[c].adds \cap occ = {} /\ occ' = occ \cup txn[c].adds
           /\ txn[c].adds \subseteq Exec \X Finding
<1> DEFINE d == txn[c]
<1>1. d \in Derivation
  BY DEF IssuesInv, IssuesTypeOK, Derived, Deriving, Review
<1>2. DerivationOK(c) /\ \A i \in d.creates : issue[i] = NoIssue
  <2>1. \A i \in d.creates : i \in Issue
    BY <1>1 DEF Derivation
  <2> QED BY <2>1 DEF IssuesInv, PendingOK, Derived, Collides
<1>3. /\ issue' = [i \in Issue |->
                    IF i \in d.creates THEN NewIssue
                    ELSE IF i \in d.reopens THEN [issue[i] EXCEPT !.state = "OPEN", !.reopened = TRUE]
                    ELSE issue[i]]
      /\ occ' = occ \cup d.adds /\ d.adds \cap occ = {}
  BY DEF Derived, Collides
<1>4. d.creates \subseteq Issue /\ d.adds \subseteq Exec \X Finding /\ d.reopens \subseteq Existing
  BY <1>1, <1>2 DEF Derivation, DerivationOK
<1>5. \A i \in Existing : issue[i] \in IssueRow /\ i \in Issue /\ i \notin d.creates
  BY <1>2 DEF IssuesInv, IssuesTypeOK, Existing
<1> HIDE DEF d
<1>6. NewIssue \in IssueRow /\ NewIssue # NoIssue
  <2>1. NewIssue \in IssueRow
    BY DEF NewIssue, IssueRow, Remediation
  <2> QED BY <2>1, ActorsAssumption
<1>7. ASSUME NEW i \in d.reopens
      PROVE  issue'[i] \in IssueRow /\ issue'[i].state = "OPEN" /\ issue'[i].reopened
  <2>1. issue[i] \in IssueRow /\ i \in Issue /\ i \notin d.creates
    BY <1>4, <1>5
  <2>2. issue'[i] = [issue[i] EXCEPT !.state = "OPEN", !.reopened = TRUE]
    BY <1>3, <2>1
  <2> QED BY <2>1, <2>2 DEF IssueRow, Remediation
<1>8. \A i \in Issue : issue'[i] \in IssueRow \cup {NoIssue}
  <2>1. \A i \in Issue : issue[i] \in IssueRow \cup {NoIssue}
    BY DEF IssuesInv, IssuesTypeOK
  <2>2. \A i \in Issue : i \notin d.creates /\ i \notin d.reopens => issue'[i] = issue[i]
    BY <1>3
  <2>3. \A i \in Issue : i \in d.creates => issue'[i] = NewIssue
    BY <1>3
  <2> QED BY <1>6, <1>7, <2>1, <2>2, <2>3
<1>9. issue' \in [Issue -> IssueRow \cup {NoIssue}]
  BY <1>3, <1>8
<1>10. \A i \in Existing \ d.reopens : issue'[i] = issue[i]
  BY <1>3, <1>5
<1>11. d.creates \subseteq Existing'
  BY <1>3, <1>4, <1>6 DEF Existing
<1>12. Existing \subseteq Existing'
  <2> SUFFICES ASSUME NEW i \in Existing PROVE i \in Issue /\ issue'[i] # NoIssue
    BY DEF Existing
  <2>1. \A x \in IssueRow : x # NoIssue
    BY ActorsAssumption
  <2>2. issue'[i] \in IssueRow
    BY <1>5, <1>7, <1>10
  <2> QED BY <1>5, <2>1, <2>2
<1> QED BY <1>3, <1>4, <1>7, <1>9, <1>10, <1>11, <1>12 DEF d

LEMMA BackfillCommits == ASSUME IssuesInv, NEW c \in Admin, Derived(c) PROVE IssuesInv'
<1>1. c \in Actor /\ c # Worker
  BY ActorsAssumption DEF Actor
<1>2. BackfillOK(c) /\ Deriving(c)
  BY <1>1 DEF IssuesInv, PendingOK, Derived
<1>3. UNCHANGED <<run, log, status>> /\ txn' = [txn EXCEPT ![c] = NoTxn]
  BY <1>2 DEF Derived, BackfillOK
<1>4. /\ issue' \in [Issue -> IssueRow \cup {NoIssue}] /\ Existing \subseteq Existing'
      /\ occ' = occ \cup txn[c].adds /\ txn[c].adds \subseteq Exec \X Finding
  BY <1>1, DerivedIssues
<1>5. \A p \in occ' : p \in Exec \X Finding /\ p[2] \in run[p[1]].seen
  BY <1>2, <1>4 DEF BackfillOK, IssuesInv, IssuesTypeOK, EverySightingProjected
<1> QED BY <1>3, <1>4, <1>5, RequestCommits

LEMMA BackfillLost == ASSUME IssuesInv, NEW c \in Admin, Lost(c) PROVE IssuesInv'
<1>1. c \in Actor /\ c # Worker
  BY ActorsAssumption DEF Actor
<1>2. BackfillOK(c)
  BY <1>1 DEF IssuesInv, PendingOK, Lost
<1>3. UNCHANGED <<run, log, status, issue, occ>> /\ txn' = [txn EXCEPT ![c] = NoTxn]
  BY <1>2 DEF Lost, BackfillOK
<1>4. issue' \in [Issue -> IssueRow \cup {NoIssue}] /\ Existing' = Existing
  BY <1>3 DEF IssuesInv, IssuesTypeOK, Existing
<1>5. \A p \in occ' : p \in Exec \X Finding /\ p[2] \in run[p[1]].seen
  BY <1>3 DEF IssuesInv, IssuesTypeOK, EverySightingProjected
<1> QED BY <1>3, <1>4, <1>5, RequestCommits

LEMMA ReviewedIs == \A r \in Review : Reviewed(r) \in Remediation
  BY DEF Review, Reviewed, Remediation

\* What a review writes to the issue it has loaded, whatever has become of it since.
LEMMA ReviewWrites ==
    ASSUME IssuesInv, NEW c \in Admin, CommitReview(c)
    PROVE  /\ issue' \in [Issue -> IssueRow \cup {NoIssue}] /\ Existing \subseteq Existing'
           /\ \A i \in Existing : issue'[i].reopened => issue[i].reopened
<1> DEFINE r == txn[c]
           old == issue[r.i]
           new == [status |-> old.status,
                   state |-> IF Reviewed(r) = r.seen THEN old.state ELSE Reviewed(r),
                   reopened |-> old.reopened /\ ~r.flag]
<1>1. c \in Actor /\ r # NoTxn /\ r.op # "derive"
  BY DEF CommitReview, Actor
<1>2. r \in Review
  BY <1>1 DEF IssuesInv, IssuesTypeOK, Derivation
<1>3. r.i \in Existing
  BY <1>1 DEF IssuesInv, PendingOK, Deriving
<1>4. issue' = [issue EXCEPT ![r.i] = new]
  BY DEF CommitReview
<1>5. \A i \in Existing : i \in Issue /\ issue[i] \in IssueRow
  BY DEF Existing, IssuesInv, IssuesTypeOK
<1>6. issue \in [Issue -> IssueRow \cup {NoIssue}]
  BY DEF IssuesInv, IssuesTypeOK
<1>7. Reviewed(r) \in Remediation /\ r.flag \in BOOLEAN
  BY <1>2, ReviewedIs DEF Review
<1>8. old \in IssueRow
  BY <1>3, <1>5
<1> HIDE DEF r, old
<1>9. new \in IssueRow /\ (new.reopened => old.reopened)
  BY <1>7, <1>8 DEF IssueRow
<1> HIDE DEF new
<1>10. new # NoIssue
  BY <1>9, ActorsAssumption
<1>11. issue' \in [Issue -> IssueRow \cup {NoIssue}]
  BY <1>4, <1>6, <1>9
<1>12. \A i \in Existing : issue'[i] = IF i = r.i THEN new ELSE issue[i]
  BY <1>4, <1>5, <1>6
<1>13. Existing \subseteq Existing'
  BY <1>5, <1>10, <1>12 DEF Existing
<1>14. old = issue[r.i]
  BY DEF old
<1> QED BY <1>9, <1>11, <1>12, <1>13, <1>14

LEMMA ReviewCommits == ASSUME IssuesInv, NEW c \in Admin, CommitReview(c) PROVE IssuesInv'
<1>1. UNCHANGED <<run, log, status, occ>> /\ txn' = [txn EXCEPT ![c] = NoTxn]
  BY DEF CommitReview
<1>2. \A p \in occ' : p \in Exec \X Finding /\ p[2] \in run[p[1]].seen
  BY <1>1 DEF IssuesInv, IssuesTypeOK, EverySightingProjected
<1> QED BY <1>1, <1>2, ReviewWrites, RequestCommits


\* The run that is being recorded has no results yet.
LEMMA RecordingIs ==
    ASSUME IssuesInv, Deriving(Worker)
    PROVE  \E e \in Exec :
              /\ Recording(e) /\ txn[Worker].e = e /\ e # 0
              /\ txn[Worker] \in Derivation /\ txn[Worker].run \in Run
              /\ run[e].state = "QUEUED" /\ run[e].seen = {}
              /\ \A k \in 1..Len(log) : log[k] \in Exec /\ log[k] # e
<1>1. Worker \in Actor
  BY DEF Actor
<1>2. PICK e \in Exec : Recording(e)
  BY <1>1 DEF IssuesInv, PendingOK, Deriving
<1>3. txn[Worker].e = e /\ run[e].state = "QUEUED"
  BY <1>2 DEF Recording
<1>4. txn[Worker] \in Derivation
  BY <1>1 DEF IssuesInv, IssuesTypeOK, Deriving, Review
<1>5. txn[Worker].run \in Run
  BY <1>4 DEF Derivation
<1>6. run[e].seen = {} /\ \A k \in 1..Len(log) : log[k] # e
  BY <1>3 DEF IssuesInv, RunsOK, Recorded
<1>7. \A k \in 1..Len(log) : log[k] \in Exec
  BY DEF IssuesInv, IssuesTypeOK
<1> QED BY <1>2, <1>3, <1>4, <1>5, <1>6, <1>7, IssuesAssumption DEF Exec

LEMMA OthersPending ==
    ASSUME IssuesInv, txn' = [txn EXCEPT ![Worker] = NoTxn], Existing \subseteq Existing',
           \A x \in Exec : run[x].seen \subseteq run'[x].seen
    PROVE  /\ txn' \in [Actor -> Derivation \cup Review \cup {NoTxn}]
           /\ \A u \in Actor : PendingOK(u)'
<1>1. txn \in [Actor -> Derivation \cup Review \cup {NoTxn}] /\ Worker \in Actor
  BY DEF IssuesInv, IssuesTypeOK, Actor
<1>2. PendingOK(Worker)'
  BY <1>1 DEF PendingOK, Deriving
<1>3. ASSUME NEW u \in Actor, u # Worker PROVE PendingOK(u)'
  <2>1. txn'[u] = txn[u] /\ PendingOK(u)
    BY <1>1, <1>3 DEF IssuesInv
  <2>2. Deriving(u)' = Deriving(u)
    BY <2>1 DEF Deriving
  <2>3. DerivationOK(u) => DerivationOK(u)'
    BY <2>1 DEF DerivationOK
  <2>4. Deriving(u) /\ BackfillOK(u) => BackfillOK(u)'
    <3> SUFFICES ASSUME Deriving(u), BackfillOK(u) PROVE BackfillOK(u)'
      OBVIOUS
    <3>1. txn[u] \in Derivation
      BY <1>1 DEF Deriving, Review
    <3>2. \A p \in txn[u].adds : p[1] \in Exec
      BY <3>1 DEF Derivation
    <3> QED BY <2>1, <3>2 DEF BackfillOK
  <2> QED BY <1>3, <2>1, <2>2, <2>3, <2>4 DEF PendingOK
<1> QED BY <1>1, <1>2, <1>3

\* The results of a run that was being recorded are lost with their transaction.
LEMMA WorkerLost == ASSUME IssuesInv, Lost(Worker) PROVE IssuesInv'
<1>1. PICK e \in Exec :
        /\ Recording(e) /\ txn[Worker].e = e /\ e # 0
        /\ run[e].state = "QUEUED" /\ run[e].seen = {}
        /\ \A k \in 1..Len(log) : log[k] \in Exec /\ log[k] # e
  BY RecordingIs DEF Lost
<1>2. /\ run' = [run EXCEPT ![e].state = "FAILED"]
      /\ txn' = [txn EXCEPT ![Worker] = NoTxn] /\ UNCHANGED <<log, status, issue, occ>>
  BY <1>1 DEF Lost
<1>3. run \in [Exec -> Run]
  BY DEF IssuesInv, IssuesTypeOK
<1>4. run'[e] \in Run /\ run'[e].state = "FAILED" /\ run'[e].seen = {}
  BY <1>1, <1>2, <1>3 DEF Run
<1>5. \A x \in Exec : x # e => run'[x] = run[x]
  BY <1>2, <1>3
<1>6. \A x \in Exec : run'[x].seen = run[x].seen
  BY <1>1, <1>4, <1>5
<1>7. \A k \in 1..Len(log) : log'[k] = log[k] /\ run'[log[k]] = run[log[k]]
  BY <1>1, <1>2, <1>5
<1>8. log' = log /\ Existing' = Existing
  BY <1>2 DEF Existing
<1>9. \A x \in Exec : Candidates(x)' = Candidates(x)
  BY <1>7, <1>8 DEF Candidates
<1>10. \A x \in Exec : Baseline(x)' = Baseline(x)
  BY <1>7, <1>9, BaselineKept DEF IssuesInv, Candidates
<1>11. run' \in [Exec -> Run]
  BY <1>2, <1>3, <1>4, <1>5
<1>12. IssuesTypeOK' /\ \A u \in Actor : PendingOK(u)'
  BY <1>2, <1>6, <1>8, <1>11, OthersPending DEF IssuesInv, IssuesTypeOK
<1>13. RunsOK'
  BY <1>5, <1>6, <1>7, <1>8, <1>4 DEF IssuesInv, RunsOK
<1>14. LastCandidate'
  BY <1>9 DEF IssuesInv, LastCandidate
<1>15. NegativeIsCovered'
  BY <1>2, <1>7, <1>8, <1>1 DEF IssuesInv, NegativeIsCovered, IssuesTypeOK
<1>16. AbsenceIsRecorded'
  <2> SUFFICES ASSUME log # << >> PROVE AbsenceIsRecorded'
    BY <1>8 DEF AbsenceIsRecorded
  <2> DEFINE l == log[Len(log)]
             b == Baseline(l)
  <2>1. Len(log) \in 1..Len(log) /\ l \in Exec
    BY <1>1 DEF IssuesInv, IssuesTypeOK
  <2>2. Baseline(l)' = b /\ run'[l] = run[l] /\ (log[Len(log)])' = l
    BY <1>7, <1>8, <1>10, <2>1
  <2>3. b # 0 => run'[b] = run[b]
    BY <1>7, <2>1, BaselineIs DEF IssuesInv
  <2>4. run[l].state = "COMPLETED" /\ b # 0 =>
          \A f \in run[b].seen \ run[l].seen : ToolOf[f] \in run[l].assessed => status[f] = "NOT_OBSERVED"
    BY DEF IssuesInv, AbsenceIsRecorded
  <2> HIDE DEF b, l
  <2>5. Baseline(log[Len(log)])' = b /\ log'[Len(log')] = l
    BY <1>8, <2>2 DEF l
  <2> QED BY <1>2, <2>2, <2>3, <2>4, <2>5 DEF AbsenceIsRecorded
<1>17. EverySightingProjected'
  <2>1. \A p \in occ : p[1] \in Exec
    BY DEF IssuesInv, IssuesTypeOK
  <2> QED BY <1>2, <1>4, <1>5, <1>6, <2>1 DEF IssuesInv, EverySightingProjected
<1> QED BY <1>12, <1>13, <1>14, <1>15, <1>16, <1>17 DEF IssuesInv

\* A recording commits: its run is the last of the log, and a baseline of later ones only.
LEMMA WorkerDerived == ASSUME IssuesInv, Derived(Worker) PROVE IssuesInv'
<1> DEFINE d == txn[Worker]
           r == d.run
           n == Len(log) + 1
<1>1. PICK e \in Exec :
        /\ Recording(e) /\ d.e = e /\ e # 0 /\ d \in Derivation /\ r \in Run
        /\ run[e].state = "QUEUED" /\ run[e].seen = {}
        /\ \A k \in 1..Len(log) : log[k] \in Exec /\ log[k] # e
  BY RecordingIs DEF Derived
<1>2. /\ run' = [run EXCEPT ![e] = r] /\ log' = Append(log, e)
      /\ status' = Marked(r.seen, r.absent) /\ txn' = [txn EXCEPT ![Worker] = NoTxn]
  BY <1>1 DEF Derived
<1>3. /\ issue' \in [Issue -> IssueRow \cup {NoIssue}]
      /\ Existing \subseteq Existing' /\ d.creates \subseteq Existing'
      /\ occ' = occ \cup d.adds /\ d.adds \subseteq Exec \X Finding
  BY DerivedIssues DEF Actor
<1>4. /\ r.state \in Recorded
      /\ r.state = "TIMED_OUT" => d.adds = {} /\ r.absent = {}
      /\ r.state = "COMPLETED" =>
            /\ d.adds = {e} \X r.seen
            /\ r.absent = Absent(Baseline(e), r.seen, r.assessed)
  BY <1>1 DEF Recording
<1>5. \A p \in d.adds : IssueOf[p[2]] \in d.creates \cup Existing
  BY DEF Derived, IssuesInv, PendingOK, DerivationOK, Actor
<1> HIDE DEF d, r
<1>6. run \in [Exec -> Run] /\ log \in Seq(Exec) /\ IssuesTypeOK
  BY DEF IssuesInv, IssuesTypeOK
<1>7. run'[e] = r /\ \A x \in Exec : x # e => run'[x] = run[x]
  BY <1>2, <1>6
<1>8. Len(log') = n /\ n \in Nat /\ log'[n] = e /\ \A k \in 1..Len(log) : log'[k] = log[k] /\ run'[log[k]] = run[log[k]]
  BY <1>1, <1>2, <1>6, <1>7
<1>9. \A x \in Exec : run[x].seen \subseteq run'[x].seen
  BY <1>1, <1>7
<1>10. run' \in [Exec -> Run]
  BY <1>1, <1>2, <1>6
<1>11. log' \in Seq(Exec) /\ \A j, k \in 1..Len(log') : log'[j] = log'[k] => j = k
  <2>1. log' \in Seq(Exec)
    BY <1>2, <1>6
  <2>2. \A j, k \in 1..Len(log) : log[j] = log[k] => j = k
    BY <1>6 DEF IssuesTypeOK
  <2>3. \A j \in 1..Len(log') : j # n => j \in 1..Len(log)
    BY <1>6, <1>8
  <2> QED BY <1>1, <1>8, <2>1, <2>2, <2>3
<1>12. status' \in [Finding -> {"NONE", "OBSERVED", "NOT_OBSERVED"}]
  BY <1>2, <1>6 DEF Marked, IssuesTypeOK
<1>13. occ' \subseteq Exec \X Finding
  BY <1>3, <1>6 DEF IssuesTypeOK
<1>14. IssuesTypeOK' /\ \A u \in Actor : PendingOK(u)'
  BY <1>2, <1>3, <1>9, <1>10, <1>11, <1>12, <1>13, OthersPending DEF IssuesTypeOK
<1>15. RunsOK'
  <2>1. \A j \in 1..Len(log') : j # n => j \in 1..Len(log)
    BY <1>6, <1>8
  <2> QED BY <1>1, <1>4, <1>7, <1>8, <2>1 DEF IssuesInv, RunsOK
<1>16. ASSUME NEW x \in Exec
       PROVE  Candidates(x)' = Candidates(x) \cup (IF r.state = "COMPLETED" /\ e < x THEN {n} ELSE {})
  <2>1. \A k \in 1..n : k # n => k \in 1..Len(log)
    BY <1>6
  <2>2. \A k \in 1..Len(log) : k \in 1..n /\ k # n
    BY <1>6
  <2>3. n \in 1..n
    BY <1>8
  <2> HIDE DEF n
  <2> QED BY <1>7, <1>8, <2>1, <2>2, <2>3 DEF Candidates
<1>17. LastCandidate'
  <2> SUFFICES ASSUME NEW x \in Exec, Candidates(x)' # {}
               PROVE  \E k \in Candidates(x)' : \A j \in Candidates(x)' : j <= k
    BY DEF LastCandidate
  <2>1. \A j \in Candidates(x) : j \in Nat /\ j <= n
    BY <1>6, <1>8 DEF Candidates
  <2>2. CASE r.state = "COMPLETED" /\ e < x
    <3>1. Candidates(x)' = Candidates(x) \cup {n}
      BY <1>16, <2>2
    <3>2. n <= n
      BY <1>8
    <3> QED BY <2>1, <3>1, <3>2
  <2>3. CASE ~(r.state = "COMPLETED" /\ e < x)
    <3>1. Candidates(x)' = Candidates(x)
      BY <1>16, <2>3
    <3> QED BY <3>1 DEF IssuesInv, LastCandidate
  <2> QED BY <2>2, <2>3
<1>18. Baseline(e)' = Baseline(e)
  <2>1. Candidates(e)' = Candidates(e)
    <3>1. ~(e < e)
      BY IssuesAssumption DEF Exec
    <3> QED BY <1>16, <3>1
  <2>2. \A k \in Candidates(e) : log'[k] = log[k]
    BY <1>8 DEF Candidates
  <2> QED BY <2>1, <2>2, BaselineKept DEF IssuesInv
<1>19. Baseline(e) = 0 \/ \E k \in 1..Len(log) : Baseline(e) = log[k]
  BY <1>6, BaselineIs DEF IssuesInv
<1>20. Baseline(e) \in 0..Runs /\ (Baseline(e) # 0 => run'[Baseline(e)] = run[Baseline(e)])
  BY <1>1, <1>8, <1>19, IssuesAssumption DEF Exec
<1>21. /\ \A f \in r.absent : f \notin r.seen /\ ToolOf[f] \in r.assessed /\ r.state = "COMPLETED"
       /\ r.state = "COMPLETED" /\ Baseline(e) # 0 =>
             \A f \in run[Baseline(e)].seen \ r.seen : ToolOf[f] \in r.assessed => f \in r.absent
  BY <1>4, <1>6, <1>20, AbsentIs DEF Recorded
<1>22. NegativeIsCovered'
  <2> SUFFICES ASSUME NEW f \in Finding, status'[f] = "NOT_OBSERVED"
               PROVE  \E k \in 1..Len(log') :
                         /\ LET q == run'[log'[k]]
                            IN  q.state = "COMPLETED" /\ f \in q.absent /\ ToolOf[f] \in q.assessed
                         /\ \A j \in k..Len(log') : f \notin run'[log'[j]].seen
    BY DEF NegativeIsCovered
  <2>1. CASE f \in r.absent
    <3>1. n \in 1..Len(log') /\ \A j \in n..Len(log') : j = n
      BY <1>8
    <3> QED BY <1>7, <1>8, <1>21, <2>1, <3>1
  <2>2. CASE f \notin r.absent
    <3>1. f \notin r.seen /\ status[f] = "NOT_OBSERVED"
      BY <1>2, <1>6, <2>2, MarkedIs
    <3>2. PICK k \in 1..Len(log) :
            /\ run[log[k]].state = "COMPLETED" /\ f \in run[log[k]].absent /\ ToolOf[f] \in run[log[k]].assessed
            /\ \A j \in k..Len(log) : f \notin run[log[j]].seen
      BY <3>1 DEF IssuesInv, NegativeIsCovered
    <3>3. k \in 1..Len(log') /\ \A j \in k..Len(log') : j = n \/ (j \in k..Len(log) /\ j \in 1..Len(log))
      BY <1>6, <1>8
    <3>4. \A j \in k..Len(log') : f \notin run'[log'[j]].seen
      BY <1>7, <1>8, <3>1, <3>2, <3>3
    <3> QED BY <1>8, <3>2, <3>3, <3>4
  <2> QED BY <2>1, <2>2
<1>23. AbsenceIsRecorded'
  <2> DEFINE b == Baseline(e)
  <2>1. log'[Len(log')] = e
    BY <1>8
  <2>2. Baseline(log[Len(log)])' = b
    BY <1>18, <2>1 DEF Baseline, Candidates
  <2> HIDE DEF b
  <2>3. r.state = "COMPLETED" /\ b # 0 =>
          \A f \in run'[b].seen \ r.seen : ToolOf[f] \in r.assessed => status'[f] = "NOT_OBSERVED"
    <3>1. r.absent \subseteq Finding
      BY <1>1 DEF Run
    <3> QED BY <1>2, <1>6, <1>20, <1>21, <3>1, MarkedIs DEF b
  <2> QED BY <1>7, <2>1, <2>2, <2>3 DEF AbsenceIsRecorded
<1>24. EverySightingProjected'
  <2>1. ASSUME NEW x \in Exec, run'[x].state = "COMPLETED", NEW f \in run'[x].seen
        PROVE  <<x, f>> \in occ' /\ issue'[IssueOf[f]] # NoIssue
    <3>1. CASE x = e
      <4>1. f \in r.seen /\ <<e, f>> \in d.adds /\ <<e, f>>[2] = f
        BY <1>4, <1>7, <2>1, <3>1
      <4>2. IssueOf[f] \in Existing'
        BY <1>3, <1>5, <4>1
      <4> QED BY <1>3, <3>1, <4>1, <4>2 DEF Existing
    <3>2. CASE x # e
      <4>1. run'[x] = run[x] /\ f \in Finding
        BY <1>6, <1>7, <2>1, <3>2 DEF Run
      <4>2. <<x, f>> \in occ /\ issue[IssueOf[f]] # NoIssue
        BY <2>1, <4>1 DEF IssuesInv, EverySightingProjected
      <4>3. IssueOf[f] \in Existing
        BY <4>1, <4>2, IssuesAssumption DEF Existing
      <4> QED BY <1>3, <4>2, <4>3 DEF Existing
    <3> QED BY <3>1, <3>2
  <2>2. ASSUME NEW p \in occ' PROVE p[2] \in run'[p[1]].seen
    <3>1. CASE p \in occ
      <4>1. p[1] \in Exec
        BY <1>6, <3>1 DEF IssuesTypeOK
      <4> QED BY <1>9, <3>1, <4>1 DEF IssuesInv, EverySightingProjected
    <3>2. CASE p \in d.adds
      BY <1>4, <1>7, <3>2 DEF Recorded
    <3> QED BY <1>3, <3>1, <3>2
  <2> QED BY <2>1, <2>2 DEF EverySightingProjected
<1> QED BY <1>14, <1>15, <1>17, <1>22, <1>23, <1>24 DEF IssuesInv

---------------------------------------------------------------------------

LEMMA InitHolds == ASSUME IssuesInit PROVE IssuesInv
<1>1. /\ run = [e \in Exec |-> NoResults] /\ log = << >> /\ issue = [i \in Issue |-> NoIssue]
      /\ status = [f \in Finding |-> "NONE"] /\ occ = {} /\ txn = [c \in Actor |-> NoTxn]
  BY DEF IssuesInit
<1>2. NoResults \in Run /\ NoResults.state = "QUEUED" /\ NoResults.seen = {}
  BY DEF NoResults, Run
<1>3. Len(log) = 0 /\ 1..Len(log) = {} /\ log \in Seq(Exec)
  BY <1>1
<1>4. IssuesTypeOK
  BY <1>1, <1>2, <1>3 DEF IssuesTypeOK
<1>5. \A e \in Exec : run[e].state = "QUEUED" /\ run[e].seen = {}
  BY <1>1, <1>2
<1>6. RunsOK /\ LastCandidate
  BY <1>3, <1>5 DEF RunsOK, LastCandidate, Candidates
<1>7. \A c \in Actor : PendingOK(c)
  BY <1>1 DEF PendingOK, Deriving
<1>8. NegativeIsCovered /\ AbsenceIsRecorded /\ EverySightingProjected
  BY <1>1, <1>5 DEF NegativeIsCovered, AbsenceIsRecorded, EverySightingProjected
<1> QED BY <1>4, <1>6, <1>7, <1>8 DEF IssuesInv

LEMMA StepHolds == ASSUME IssuesInv, [IssuesNext]_issuesVars PROVE IssuesInv'
<1>1. ASSUME NEW e \in Exec, NEW res \in Results, Persist(e, res) \/ PersistPartial(e, res) PROVE IssuesInv'
  BY <1>1, PersistLoads, PartialLoads
<1>2. ASSUME NEW c \in Admin, Backfill(c) \/ CommitReview(c) PROVE IssuesInv'
  BY <1>2, BackfillLoads, ReviewCommits
<1>3. ASSUME NEW c \in Actor, Derived(c) \/ Lost(c) PROVE IssuesInv'
  <2>1. CASE c = Worker
    BY <1>3, <2>1, WorkerDerived, WorkerLost
  <2>2. CASE c \in Admin
    BY <1>3, <2>2, BackfillCommits, BackfillLost
  <2> QED BY <2>1, <2>2 DEF Actor
<1>4. ASSUME NEW c \in Admin, NEW i \in Issue,
             \/ Assign(c, i) \/ SetMitigated(c, i) \/ AcceptRisk(c, i)
             \/ \E manually \in BOOLEAN : VerifyClosure(c, i, manually)
      PROVE  IssuesInv'
  <2>1. \E op \in {"assign", "mitigate", "accept", "close"} : Open(c, i, op)
    BY <1>4 DEF Assign, SetMitigated, AcceptRisk, VerifyClosure
  <2> QED BY <2>1, ReviewLoads
<1>5. CASE UNCHANGED issuesVars
  <2>1. UNCHANGED <<run, log, status, issue, occ, txn>>
    BY <1>5 DEF issuesVars
  <2>2. \A u \in Actor : PendingOK(u)'
    BY <2>1, PendingSame
  <2>3. IssuesTypeOK'
    BY <2>1 DEF IssuesInv, IssuesTypeOK
  <2> QED BY <2>1, <2>2, <2>3, SameTables DEF IssuesInv
<1> QED BY <1>1, <1>2, <1>3, <1>4, <1>5 DEF IssuesNext

\* Whatever the transactions of one target load, decide and commit, what is pending fits
\* the tables and the tables agree with one another (runner.py:250-310, issues.py:52-126).
THEOREM IssuesInvariance == IssuesSpec => []IssuesInv
<1>1. IssuesInit => IssuesInv
  BY InitHolds
<1>2. IssuesInv /\ [IssuesNext]_issuesVars => IssuesInv'
  BY StepHolds
<1> QED BY <1>1, <1>2, PTL DEF IssuesSpec

\* The tables and the open transactions stay within their types, and no run is recorded twice.
THEOREM IssuesTypeCorrect == IssuesSpec => []IssuesTypeOK
<1>1. IssuesInv => IssuesTypeOK
  BY DEF IssuesInv
<1> QED BY <1>1, IssuesInvariance, PTL

\* A finding is denied only by a completed run whose stage covered it, and by no run that
\* is followed by one that saw it (comparison.py:105-135).
THEOREM DenialsAreCovered == IssuesSpec => []NegativeIsCovered
<1>1. IssuesInv => NegativeIsCovered
  BY DEF IssuesInv
<1> QED BY <1>1, IssuesInvariance, PTL

\* What the last run was able to deny of its baseline is not OBSERVED any more (comparison.py:32-45).
THEOREM DenialsAreRecorded == IssuesSpec => []AbsenceIsRecorded
<1>1. IssuesInv => AbsenceIsRecorded
  BY DEF IssuesInv
<1> QED BY <1>1, IssuesInvariance, PTL

\* A sighting of a completed run has its occurrence and its issue, and an occurrence its
\* sighting (issues.py:52-126).
THEOREM SightingsAreProjected == IssuesSpec => []EverySightingProjected
<1>1. IssuesInv => EverySightingProjected
  BY DEF IssuesInv
<1> QED BY <1>1, IssuesInvariance, PTL

ComesBack ==
    \A i \in Issue :
       /\ \A e \in Exec : run[e].state = "QUEUED" /\ run'[e].state = "COMPLETED"
                          /\ i \in txn[Worker].closed /\ (\E f \in run'[e].seen : IssueOf[f] = i) =>
                              issue'[i].state = "OPEN" /\ issue'[i].reopened
       /\ issue[i] # NoIssue /\ ~issue[i].reopened /\ issue'[i].reopened =>
              \E p \in occ' \ occ : IssueOf[p[2]] = i

\* A step that leaves the runs and the issues alone reopens nothing.
LEMMA NothingReopens ==
    ASSUME UNCHANGED run, \A i \in Existing : issue'[i].reopened => issue[i].reopened
    PROVE  ComesBack
  BY DEF ComesBack, Existing

LEMMA DerivedComesBack == ASSUME IssuesInv, NEW c \in Actor, Derived(c) PROVE ComesBack
<1> DEFINE d == txn[c]
<1>1. /\ \A i \in Issue : i \in d.reopens => issue'[i].state = "OPEN" /\ issue'[i].reopened
      /\ \A i \in Existing \ d.reopens : issue'[i] = issue[i]
      /\ d.adds \cap occ = {} /\ occ' = occ \cup d.adds
  BY DerivedIssues
<1>2. \A i \in d.reopens : \E p \in d.adds : IssueOf[p[2]] = i
  BY DEF Derived, IssuesInv, PendingOK, DerivationOK
<1>3. ASSUME NEW i \in Issue, issue[i] # NoIssue, ~issue[i].reopened, issue'[i].reopened
      PROVE  \E p \in occ' \ occ : IssueOf[p[2]] = i
  <2>1. i \in d.reopens
    BY <1>1, <1>3 DEF Existing
  <2> QED BY <1>1, <1>2, <2>1
<1>4. ASSUME NEW i \in Issue, NEW e \in Exec, run[e].state = "QUEUED", run'[e].state = "COMPLETED",
             i \in txn[Worker].closed, NEW f \in run'[e].seen, IssueOf[f] = i
      PROVE  issue'[i].state = "OPEN" /\ issue'[i].reopened
  <2>1. CASE c # Worker
    <3>1. run' = run
      BY <2>1 DEF Derived, IssuesInv, PendingOK, BackfillOK
    <3> QED BY <1>4, <3>1
  <2>2. CASE c = Worker
    <3>1. PICK x \in Exec : Recording(x) /\ d.e = x /\ x # 0
      BY <2>2, RecordingIs DEF Derived
    <3>2. run' = [run EXCEPT ![x] = d.run] /\ run \in [Exec -> Run]
      BY <3>1 DEF Derived, IssuesInv, IssuesTypeOK
    <3>3. e = x /\ run'[e] = d.run
      BY <1>4, <3>2
    <3>4. i \in d.reopens
      BY <1>4, <2>2, <3>1, <3>3 DEF Recording
    <3> QED BY <1>1, <3>4
  <2> QED BY <2>1, <2>2
<1> QED BY <1>3, <1>4 DEF ComesBack

LEMMA StepComesBack == ASSUME IssuesInv, [IssuesNext]_issuesVars PROVE ComesBack
<1>1. ASSUME NEW e \in Exec, NEW res \in Results, Persist(e, res) \/ PersistPartial(e, res) PROVE ComesBack
  BY <1>1, NothingReopens DEF Persist, PersistPartial
<1>2. ASSUME NEW c \in Admin, Backfill(c) PROVE ComesBack
  BY <1>2, NothingReopens DEF Backfill
<1>3. ASSUME NEW c \in Admin, CommitReview(c) PROVE ComesBack
  <2>1. UNCHANGED run
    BY <1>3 DEF CommitReview
  <2> QED BY <1>3, <2>1, ReviewWrites, NothingReopens
<1>4. ASSUME NEW c \in Actor, Derived(c) PROVE ComesBack
  BY <1>4, DerivedComesBack
<1>5. ASSUME NEW c \in Actor, Lost(c) PROVE ComesBack
  <2>1. UNCHANGED issue
    BY <1>5 DEF Lost
  <2>2. ASSUME NEW e \in Exec PROVE run'[e].state = "COMPLETED" => run[e].state = "COMPLETED"
    <3>1. run \in [Exec -> Run]
      BY DEF IssuesInv, IssuesTypeOK
    <3>2. CASE txn[c].e = 0
      BY <1>5, <3>2 DEF Lost
    <3>3. CASE txn[c].e # 0
      <4>1. run' = [run EXCEPT ![txn[c].e].state = "FAILED"]
        BY <1>5, <3>3 DEF Lost
      <4>2. CASE e = txn[c].e
        <5>1. run'[e].state = "FAILED"
          BY <3>1, <4>1, <4>2 DEF Run
        <5> QED BY <5>1
      <4>3. CASE e # txn[c].e
        BY <3>1, <4>1, <4>3
      <4> QED BY <4>2, <4>3
    <3> QED BY <3>2, <3>3
  <2> QED BY <2>1, <2>2 DEF ComesBack
<1>6. ASSUME NEW c \in Admin, NEW i \in Issue,
             \/ Assign(c, i) \/ SetMitigated(c, i) \/ AcceptRisk(c, i)
             \/ \E manually \in BOOLEAN : VerifyClosure(c, i, manually)
      PROVE  ComesBack
  <2>1. UNCHANGED <<run, issue>>
    BY <1>6 DEF Assign, SetMitigated, AcceptRisk, VerifyClosure, Open
  <2> QED BY <2>1, NothingReopens
<1>7. CASE UNCHANGED issuesVars
  BY <1>7, NothingReopens DEF issuesVars
<1> QED BY <1>1, <1>2, <1>3, <1>4, <1>5, <1>6, <1>7 DEF IssuesNext

\* A closed issue that a recording has seen is open again with it, whatever was reviewed in
\* between, and only a new occurrence reopens an issue (issues.py:103-121, review.py:120-137).
THEOREM ClosedComesBack == IssuesSpec => ReopenedWhenSeen
<1>1. IssuesInv /\ [IssuesNext]_issuesVars => ComesBack
  BY StepComesBack
<1>2. ComesBack => [ComesBack]_issuesVars
  OBVIOUS
<1> QED BY <1>1, IssuesInvariance, PTL DEF IssuesSpec, ReopenedWhenSeen, ComesBack
=============================================================================
