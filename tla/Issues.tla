------------------------------- MODULE Issues ------------------------------
(***************************************************************************)
(* From the results of a run to reviewed issues: what the worker persists   *)
(* at the end of a run (worker/runner.py, services/findings.py, coverage.py, *)
(* comparison.py, issues.py), the backfill of issues and their review        *)
(* (services/review.py, api/findings.py), for the runs of one target.        *)
(*                                                                         *)
(* A recording is one transaction, and so is a request; each loads what it   *)
(* decides on and writes it later, and the others' commits come in between.  *)
(* A row is written column by column, and only the columns that were changed *)
(* from what had been loaded.  Runs of one target take turns (the limit per  *)
(* target is one), so one recording is open at a time.                       *)
(*                                                                         *)
(* A run is its place in the order of creation.  CANCELLED leaves the same   *)
(* rows as TIMED_OUT; FAILED stands for every run that records nothing, an   *)
(* error of the recording included.                                          *)
(* Bad... operators are seeded faults.                                       *)
(***************************************************************************)
EXTENDS Naturals, Sequences, FiniteSets

CONSTANTS
    Runs,       \* bound: runs of the target
    Finding,    \* fingerprints a tool may report
    Tool,       \* tools, each of which has a stage of its own
    ToolOf,     \* the tool of each finding
    Issue,      \* canonical issue types
    IssueOf,    \* canonical_issue_type of each finding's rule
    Admin,      \* API processes that serve reviews and backfills
    NoTxn, NoIssue

ASSUME IssuesAssumption ==
    /\ Runs \in Nat /\ IsFiniteSet(Finding)
    /\ ToolOf \in [Finding -> Tool] /\ IssueOf \in [Finding -> Issue]

VARIABLES
    run,        \* scan_executions: state, finding_sightings, stages, scan_comparisons
    log,        \* the runs whose results are recorded, by finished_at
    status,     \* findings.status
    issue,      \* issues
    occ,        \* occurrences
    txn          \* the open transactions

issuesVars == <<run, log, status, issue, occ, txn>>

Exec == 1..Runs
Worker == "worker"
Actor == {Worker} \cup Admin

Remediation == {"OPEN", "IN_PROGRESS", "MITIGATED", "RESOLVED_VERIFIED", "RISK_ACCEPTED"}

Run == [state : {"QUEUED", "COMPLETED", "TIMED_OUT", "FAILED"}, seen : SUBSET Finding,
        assessed : SUBSET Tool, absent : SUBSET Finding]

IssueRow == [status : {"OBSERVED", "NOT_OBSERVED"}, state : Remediation,
             reopened : BOOLEAN]

\* What derive_issues is about to write, for a run or for a backfill (e = 0).
Derivation == [op : {"derive"}, e : 0..Runs, run : Run, adds : SUBSET (Exec \X Finding),
               creates : SUBSET Issue, closed : SUBSET Issue, reopens : SUBSET Issue]
Review == [op : {"assign", "mitigate", "accept", "close"}, i : Issue, seen : Remediation, flag : BOOLEAN]

NoResults == [state |-> "QUEUED", seen |-> {}, assessed |-> {}, absent |-> {}]

\* The worker is a process of its own, and no row is NULL.
ASSUME ActorsAssumption ==
    /\ Worker \notin Admin
    /\ NoTxn \notin Derivation \cup Review /\ NoIssue \notin IssueRow

IssuesTypeOK ==
    /\ run \in [Exec -> Run]
    /\ log \in Seq(Exec) /\ \A j, k \in 1..Len(log) : log[j] = log[k] => j = k
    /\ status \in [Finding -> {"NONE", "OBSERVED", "NOT_OBSERVED"}]
    /\ issue \in [Issue -> IssueRow \cup {NoIssue}]
    /\ occ \subseteq Exec \X Finding
    /\ txn \in [Actor -> Derivation \cup Review \cup {NoTxn}]

IssuesInit ==
    /\ run = [e \in Exec |-> NoResults]
    /\ log = << >>
    /\ status = [f \in Finding |-> "NONE"]
    /\ issue = [i \in Issue |-> NoIssue]
    /\ occ = {}
    /\ txn = [c \in Actor |-> NoTxn]

---------------------------------------------------------------------------
(* Findings, coverage and comparison. *)

\* What a stage reports: the tool is missing, it was cut short, it confirmed success, it
\* had nothing to look at, and what it found.
Output(t) == {o \in [missing : BOOLEAN, incomplete : BOOLEAN, ok : BOOLEAN, nothing : BOOLEAN,
                     found : SUBSET {f \in Finding : ToolOf[f] = t}] :
                 /\ o.missing => ~o.ok
                 /\ o.missing \/ o.nothing => o.found = {}}

\* coverage_outcome
CoverageOutcome(o) ==
    IF o.missing THEN "NOT_ASSESSED"
    ELSE IF o.incomplete THEN "COMPLETED_WITH_GAPS"
    ELSE IF ~o.ok THEN "INCONCLUSIVE"
    ELSE IF o.nothing THEN "NOT_ASSESSED"
    ELSE "ASSESSED"

\* What record_findings and record_coverage make of a run's outputs.
Results == {[seen |-> UNION {o[t].found : t \in Tool},
             assessed |-> {t \in Tool : CoverageOutcome(o[t]) = "ASSESSED"}] :
               o \in {q \in [Tool -> UNION {Output(t) : t \in Tool}] : \A t \in Tool : q[t] \in Output(t)}}

\* find_baseline: of the completed runs created before, the one that finished last.
Candidates(e) == {k \in 1..Len(log) : run[log[k]].state = "COMPLETED" /\ log[k] < e}

Baseline(e) ==
    IF Candidates(e) = {} THEN 0
    ELSE log[CHOOSE k \in Candidates(e) : \A j \in Candidates(e) : j <= k]

BadAbsent(b, seen, assessed) == IF b = 0 \/ assessed # Tool THEN {} ELSE run[b].seen \ seen

BadUngated(b, seen, assessed) == IF b = 0 THEN {} ELSE run[b].seen \ seen

\* compare: what the baseline has seen, this run has not, and its stage is able to deny
Absent(b, seen, assessed) ==
    IF b = 0 THEN {} ELSE {f \in run[b].seen \ seen : ToolOf[f] \in assessed}

---------------------------------------------------------------------------
(* Issues. *)

BadMissing(s) == {p \in s : \A q \in occ : q[2] # p[2]}

\* The sightings that have no occurrence yet
Missing(s) == s \ occ

Closed == {i \in Issue : issue[i] # NoIssue /\ issue[i].state = "RESOLVED_VERIFIED"}

BadReopened(adds, st) == {i \in Closed : \E p \in adds : IssueOf[p[2]] = i /\ st[p[2]] = "NOT_OBSERVED"}

\* maybe_reopen, of the issues that get an occurrence of a finding that is observed
Reopened(adds, st) == {i \in Closed : \E p \in adds : IssueOf[p[2]] = i /\ st[p[2]] = "OBSERVED"}

\* derive_issues of a set of sightings, with the findings as the transaction has them
Derive(e, r, sightings, st) ==
    LET adds == Missing(sightings)
    IN  [op |-> "derive", e |-> e, run |-> r, adds |-> adds,
         creates |-> {IssueOf[p[2]] : p \in sightings} \ {i \in Issue : issue[i] # NoIssue},
         closed |-> Closed, reopens |-> Reopened(adds, st)]

BadMarked(seen, absent) ==
    [f \in Finding |-> IF f \in absent THEN "RESOLVED" ELSE IF f \in seen THEN "OBSERVED" ELSE status[f]]

\* record_findings and build_and_store, of findings.status
Marked(seen, absent) ==
    [f \in Finding |-> IF f \in absent THEN "NOT_OBSERVED"
                       ELSE IF f \in seen THEN "OBSERVED" ELSE status[f]]

\* The end of a run, until its commit.
Persist(e, res) ==
    /\ run[e].state = "QUEUED" /\ txn[Worker] = NoTxn
    /\ LET absent == Absent(Baseline(e), res.seen, res.assessed)
       IN  txn' = [txn EXCEPT ![Worker] =
             Derive(e, [state |-> "COMPLETED", seen |-> res.seen, assessed |-> res.assessed, absent |-> absent],
                    {e} \X res.seen, Marked(res.seen, absent))]
    /\ UNCHANGED <<run, log, status, issue, occ>>

\* A run that was cut short keeps its findings; they are compared with nothing and no
\* issue is derived from them.  Its coverage is never read.
PersistPartial(e, res) ==
    /\ run[e].state = "QUEUED" /\ txn[Worker] = NoTxn
    /\ txn' = [txn EXCEPT ![Worker] =
         Derive(e, [state |-> "TIMED_OUT", seen |-> res.seen, assessed |-> {}, absent |-> {}],
                {}, status)]
    /\ UNCHANGED <<run, log, status, issue, occ>>

\* backfill_all: every run that has sightings, whatever its state.
Backfill(c) ==
    /\ txn[c] = NoTxn
    /\ txn' = [txn EXCEPT ![c] =
                Derive(0, NoResults, {p \in Exec \X Finding : p[2] \in run[p[1]].seen}, status)]
    /\ UNCHANGED <<run, log, status, issue, occ>>

NewIssue == [status |-> "OBSERVED", state |-> "OPEN", reopened |-> FALSE]

Deriving(c) == txn[c] # NoTxn /\ txn[c].op = "derive"

\* The unique keys of issues and of occurrences
Collides(c) ==
    \/ \E i \in txn[c].creates : issue[i] # NoIssue
    \/ txn[c].adds \cap occ # {}

Derived(c) ==
    /\ Deriving(c) /\ ~Collides(c)
    /\ issue' = [i \in Issue |->
                   IF i \in txn[c].creates THEN NewIssue
                   ELSE IF i \in txn[c].reopens THEN [issue[i] EXCEPT !.state = "OPEN", !.reopened = TRUE]
                   ELSE issue[i]]
    /\ occ' = occ \cup txn[c].adds
    /\ IF txn[c].e = 0 THEN UNCHANGED <<run, log, status>>
       ELSE /\ run' = [run EXCEPT ![txn[c].e] = txn[c].run]
            /\ log' = Append(log, txn[c].e)
            /\ status' = Marked(txn[c].run.seen, txn[c].run.absent)
    /\ txn' = [txn EXCEPT ![c] = NoTxn]

\* The transaction fails: a key collides, or the process dies.  A run whose results are
\* lost is left to the sweep.
Lost(c) ==
    /\ Deriving(c)
    /\ run' = IF txn[c].e = 0 THEN run ELSE [run EXCEPT ![txn[c].e].state = "FAILED"]
    /\ txn' = [txn EXCEPT ![c] = NoTxn]
    /\ UNCHANGED <<log, status, issue, occ>>

---------------------------------------------------------------------------
(* Review.  validation_state is a dimension of its own, and the rows of risk_exceptions are  *)
(* only added; both are left out. *)

Open(c, i, op) ==
    /\ txn[c] = NoTxn /\ issue[i] # NoIssue
    /\ txn' = [txn EXCEPT ![c] = [op |-> op, i |-> i, seen |-> issue[i].state,
                               flag |-> op = "close" /\ issue[i].reopened]]
    /\ UNCHANGED <<run, log, status, issue, occ>>

Assign(c, i)     == Open(c, i, "assign")
SetMitigated(c, i) == Open(c, i, "mitigate")
AcceptRisk(c, i) == Open(c, i, "accept")

\* verify_closure, on recorded manual evidence or on a negative retest
VerifyClosure(c, i, manually) ==
    /\ issue[i] # NoIssue
    /\ manually \/ issue[i].status = "NOT_OBSERVED"
    /\ Open(c, i, "close")

\* The state a review gives the issue it has loaded
Reviewed(r) ==
    CASE r.op = "assign"   -> IF r.seen = "OPEN" THEN "IN_PROGRESS" ELSE r.seen
      [] r.op = "mitigate" -> "MITIGATED"
      [] r.op = "accept"   -> "RISK_ACCEPTED"
      [] r.op = "close"    -> "RESOLVED_VERIFIED"

CommitReview(c) ==
    /\ txn[c] # NoTxn /\ txn[c].op # "derive"
    /\ LET r == txn[c]
       IN  issue' = [issue EXCEPT ![r.i] =
             [status |-> @.status,
              state |-> IF Reviewed(r) = r.seen THEN @.state ELSE Reviewed(r),
              reopened |-> @.reopened /\ ~r.flag]]
    /\ txn' = [txn EXCEPT ![c] = NoTxn]
    /\ UNCHANGED <<run, log, status, occ>>

IssuesNext ==
    \/ \E e \in Exec, res \in Results : Persist(e, res) \/ PersistPartial(e, res)
    \/ \E c \in Admin : Backfill(c) \/ CommitReview(c)
    \/ \E c \in Actor : Derived(c) \/ Lost(c)
    \/ \E c \in Admin, i \in Issue :
          \/ Assign(c, i) \/ SetMitigated(c, i) \/ AcceptRisk(c, i)
          \/ \E manually \in BOOLEAN : VerifyClosure(c, i, manually)

IssuesSpec == IssuesInit /\ [][IssuesNext]_issuesVars

---------------------------------------------------------------------------

\* build_and_store (comparison.py:105-135, 166-171): a finding is NOT_OBSERVED only by the
\* comparison of a completed run that did not see it, whose stage was assessed in full,
\* and no run recorded since has seen it.
NegativeIsCovered ==
    \A f \in Finding :
        status[f] = "NOT_OBSERVED" =>
            \E k \in 1..Len(log) :
                /\ LET r == run[log[k]]
                   IN  r.state = "COMPLETED" /\ f \in r.absent /\ ToolOf[f] \in r.assessed
                /\ \A j \in k..Len(log) : f \notin run[log[j]].seen

\* The other direction (comparison.py:32-45, 105-135): when the run that was recorded last
\* denies what its baseline saw, the finding does not stay OBSERVED, whatever ran or was
\* cut short in between.
AbsenceIsRecorded ==
    log # << >> =>
        LET e == log[Len(log)]
            b == Baseline(e)
        IN  run[e].state = "COMPLETED" /\ b # 0 =>
              \A f \in run[b].seen \ run[e].seen :
                  ToolOf[f] \in run[e].assessed => status[f] = "NOT_OBSERVED"

\* derive_issues and maybe_reopen (issues.py:103-121, review.py:120-137): an issue that
\* was closed when a recording began and that the run has seen is open again when the
\* recording commits, whatever reviews were committed meanwhile; and nothing reopens an
\* issue without a new occurrence of it.
ReopenedWhenSeen ==
    [][\A i \in Issue :
          /\ \A e \in Exec : run[e].state = "QUEUED" /\ run'[e].state = "COMPLETED"
                             /\ i \in txn[Worker].closed /\ (\E f \in run'[e].seen : IssueOf[f] = i) =>
                                 issue'[i].state = "OPEN" /\ issue'[i].reopened
          /\ issue[i] # NoIssue /\ ~issue[i].reopened /\ issue'[i].reopened =>
                 \E p \in occ' \ occ : IssueOf[p[2]] = i]_issuesVars

\* derive_issues (issues.py:52-126; models 884-886): every sighting of a completed run has
\* its occurrence and its issue, whichever of the recording and a backfill was first, and
\* nothing that was not seen has one.
EverySightingProjected ==
    /\ \A e \in Exec : run[e].state = "COMPLETED" =>
          \A f \in run[e].seen : <<e, f>> \in occ /\ issue[IssueOf[f]] # NoIssue
    /\ \A p \in occ : p[2] \in run[p[1]].seen

===========================================================================
